---- MODULE Spec2Model ----
(***************************************************************************)
(* Interception Orbit: the in-memory game state (repo.rs), the movement    *)
(* and shooting commands (user_input.rs), the gravity and integration use  *)
(* cases (physics.rs) and the vector math they rest on (entities.rs).      *)
(*                                                                         *)
(* f32 is modelled as a binary floating-point format of reduced width: a   *)
(* finite value is the integer n standing for n / 2^FracBits, it carries   *)
(* at most MantBits significant bits, every operation rounds to nearest    *)
(* (ties to even), overflows to an infinity and underflows gradually to    *)
(* the grid of 1 / 2^FracBits.  NaN and the two infinities are values of   *)
(* their own.  The sign of zero is not modelled.                           *)
(***************************************************************************)
EXTENDS Integers, Sequences, FiniteSets, TLC

\* ------------------------------------------------------------------ f32

\* Number of fraction bits below one: the smallest positive value is 1/64.
FracBits == 6

\* Number of significant bits of a value (f32 has 24).
MantBits == 7

\* The largest exponent of the unit in the last place (in units of 1/64).
MaxUlpExp == 8

\* f32::NAN, f32::INFINITY and f32::NEG_INFINITY, outside the finite range.
NaN == 50000

PosInf == 40000

NegInf == -40000

RECURSIVE Pow2(_)
Pow2(e) == IF e = 0 THEN 1 ELSE 2 * Pow2(e - 1)

One == Pow2(FracBits)

\* The largest finite value, f32::MAX.
MaxFinite == (Pow2(MantBits) - 1) * Pow2(MaxUlpExp)

IsNaN(a) == a = NaN

IsInf(a) == a = PosInf \/ a = NegInf

IsFinite(a) == ~IsNaN(a) /\ ~IsInf(a)

Abs(n) == IF n < 0 THEN -n ELSE n

Sign(n) == IF n < 0 THEN -1 ELSE 1

\* The first magnitude (in units) that no longer fits MantBits bits.
MantLimit == Pow2(MantBits)

\* The unit in the last place of a magnitude q kept to MantBits bits.
RECURSIVE Ulp(_)
Ulp(q) == IF q < MantLimit THEN 1 ELSE 2 * Ulp(q \div 2)

\* num / d rounded to the nearest integer, ties to even, times step.
RoundTo(num, d, step) ==
  LET f == num \div d
      r == num % d
  IN  IF 2 * r > d \/ (2 * r = d /\ f % 2 = 1) THEN step * (f + 1) ELSE step * f

\* num / den (num >= 0, den > 0) rounded to MantBits significant bits on the
\* grid of units, ties to even.
RoundRatio(num, den) ==
  LET step == Ulp(num \div den) IN RoundTo(num, den * step, step)

\* A rounded magnitude with its sign; past f32::MAX it is an infinity.
Signed(sign, mag) ==
  IF mag > MaxFinite THEN (IF sign < 0 THEN NegInf ELSE PosInf) ELSE sign * mag

FNeg(a) == IF IsNaN(a) THEN NaN ELSE -a

FAdd(a, b) ==
  IF IsNaN(a) \/ IsNaN(b) THEN NaN
  ELSE IF IsInf(a) THEN (IF IsInf(b) /\ b # a THEN NaN ELSE a)
  ELSE IF IsInf(b) THEN b
  ELSE IF Abs(a + b) < MantLimit THEN a + b
  ELSE Signed(Sign(a + b), RoundRatio(Abs(a + b), 1))

FSub(a, b) == FAdd(a, FNeg(b))

FMul(a, b) ==
  IF IsNaN(a) \/ IsNaN(b) THEN NaN
  ELSE IF IsInf(a) \/ IsInf(b)
    THEN (IF a = 0 \/ b = 0 THEN NaN
          ELSE IF Sign(a) * Sign(b) < 0 THEN NegInf ELSE PosInf)
  ELSE Signed(Sign(a) * Sign(b), RoundRatio(Abs(a) * Abs(b), One))

\* f32 division a / b.
FDiv(a, b) ==
  IF IsNaN(a) \/ IsNaN(b) THEN NaN
  ELSE IF IsInf(a)
    THEN (IF IsInf(b) THEN NaN
          ELSE IF Sign(a) * Sign(b) < 0 THEN NegInf ELSE PosInf)
  ELSE IF IsInf(b) THEN 0
  ELSE IF b = 0
    THEN (IF a = 0 THEN NaN ELSE IF a < 0 THEN NegInf ELSE PosInf)
  ELSE Signed(Sign(a) * Sign(b), RoundRatio(Abs(a) * One, Abs(b)))

\* f32::recip.
FRecip(a) == FDiv(One, a)

RECURSIVE ISqrt(_)
ISqrt(n) ==
  IF n < 2 THEN n
  ELSE LET s == 2 * ISqrt(n \div 4)
       IN  IF (s + 1) * (s + 1) <= n THEN s + 1 ELSE s

\* f32::sqrt, correctly rounded.
FSqrt(a) ==
  IF IsNaN(a) \/ a < 0 THEN NaN
  ELSE IF a = PosInf THEN PosInf
  ELSE LET x == a * One
           s == ISqrt(x)
           step == Ulp(s)
           lo == (s \div step) * step
           \* 2 * the midpoint of lo and lo + step
           mid2 == 2 * lo + step
           up == 4 * x > mid2 * mid2 \/ (4 * x = mid2 * mid2 /\ (lo \div step) % 2 = 1)
       IN  IF up THEN lo + step ELSE lo

\* The % of two f32 (fmod): exact, with the sign of the dividend.
FRem(a, b) ==
  IF IsNaN(a) \/ IsNaN(b) \/ IsInf(a) \/ b = 0 THEN NaN
  ELSE IF IsInf(b) THEN a
  ELSE Sign(a) * (Abs(a) % Abs(b))

\* a < b and a == b on f32: false when either side is NaN.
FLt(a, b) == ~IsNaN(a) /\ ~IsNaN(b) /\ a < b

FEq(a, b) == ~IsNaN(a) /\ ~IsNaN(b) /\ a = b

\* ------------------------------------------------- f32 cos, sin, atan2

\* std::f32::consts::PI and entities::TWO_PI, rounded to the format.
PI == 202

TWO_PI == 404

\* The position of a representable angle of [0, TWO_PI] in the tables below.
AngleIndex(a) ==
  IF a < 128 THEN a + 1
  ELSE IF a < 256 THEN 129 + (a - 128) \div 2
  ELSE 193 + (a - 256) \div 4

\* cos and sin of every representable angle of [0, TWO_PI], correctly rounded.
CosTable ==
  << 64, 64, 64, 64, 64, 64, 64, 64, 64, 63, 63, 63, 63, 63, 62, 62,
     62, 62, 61, 61, 61, 61, 60, 60, 60, 59, 59, 58, 58, 58, 57, 57,
     56, 56, 55, 55, 54, 54, 53, 52, 52, 51, 51, 50, 49, 49, 48, 48,
     47, 46, 45, 45, 44, 43, 43, 42, 41, 40, 39, 39, 38, 37, 36, 35,
     35, 34, 33, 32, 31, 30, 29, 28, 28, 27, 26, 25, 24, 23, 22, 21,
     20, 19, 18, 17, 16, 15, 14, 13, 12, 11, 10, 9, 9, 8, 7, 6,
     5, 4, 3, 2, 1, 0, -1, -2, -3, -4, -5, -6, -7, -8, -9, -10,
     -11, -12, -13, -14, -15, -16, -17, -18, -19, -20, -21, -22, -23, -24, -25, -26,
     -27, -28, -30, -32, -34, -35, -37, -39, -40, -42, -43, -45, -46, -47, -49, -50,
     -51, -52, -54, -55, -56, -57, -58, -58, -59, -60, -61, -61, -62, -62, -63, -63,
     -63, -64, -64, -64, -64, -64, -64, -64, -64, -63, -63, -63, -62, -62, -61, -61,
     -60, -59, -58, -58, -57, -56, -55, -54, -53, -51, -50, -49, -48, -46, -45, -43,
     -42, -39, -35, -32, -29, -25, -21, -17, -13, -10, -6, -2, 2, 6, 10, 14,
     18, 22, 26, 29, 33, 36, 39, 42, 45, 48, 51, 53, 55, 57, 59, 60,
     61, 62, 63, 64, 64, 64 >>

SinTable ==
  << 0, 1, 2, 3, 4, 5, 6, 7, 8, 9, 10, 11, 12, 13, 14, 15,
     16, 17, 18, 19, 20, 21, 22, 23, 23, 24, 25, 26, 27, 28, 29, 30,
     31, 32, 32, 33, 34, 35, 36, 37, 37, 38, 39, 40, 41, 41, 42, 43,
     44, 44, 45, 46, 46, 47, 48, 48, 49, 50, 50, 51, 52, 52, 53, 53,
     54, 54, 55, 55, 56, 56, 57, 57, 58, 58, 59, 59, 59, 60, 60, 60,
     61, 61, 61, 62, 62, 62, 62, 63, 63, 63, 63, 63, 63, 64, 64, 64,
     64, 64, 64, 64, 64, 64, 64, 64, 64, 64, 64, 64, 64, 63, 63, 63,
     63, 63, 63, 62, 62, 62, 62, 61, 61, 61, 60, 60, 60, 59, 59, 59,
     58, 57, 56, 55, 54, 53, 52, 51, 50, 49, 47, 46, 44, 43, 41, 40,
     38, 37, 35, 33, 32, 30, 28, 26, 24, 23, 21, 19, 17, 15, 13, 11,
     9, 7, 5, 3, 1, -1, -3, -5, -7, -9, -11, -13, -15, -17, -19, -21,
     -22, -24, -26, -28, -30, -32, -33, -35, -37, -38, -40, -41, -43, -44, -46, -47,
     -48, -51, -53, -55, -57, -59, -60, -62, -63, -63, -64, -64, -64, -64, -63, -62,
     -61, -60, -59, -57, -55, -53, -50, -48, -45, -42, -39, -36, -33, -29, -25, -22,
     -18, -14, -10, -6, -2, 2 >>
\* The representable angles of [0, PI] and, for each two neighbours, the cos
\* and sin (scaled by 2^14) of the angle midway between them.
AtanAngles ==
  << 0, 1, 2, 3, 4, 5, 6, 7, 8, 9, 10, 11, 12, 13, 14, 15,
     16, 17, 18, 19, 20, 21, 22, 23, 24, 25, 26, 27, 28, 29, 30, 31,
     32, 33, 34, 35, 36, 37, 38, 39, 40, 41, 42, 43, 44, 45, 46, 47,
     48, 49, 50, 51, 52, 53, 54, 55, 56, 57, 58, 59, 60, 61, 62, 63,
     64, 65, 66, 67, 68, 69, 70, 71, 72, 73, 74, 75, 76, 77, 78, 79,
     80, 81, 82, 83, 84, 85, 86, 87, 88, 89, 90, 91, 92, 93, 94, 95,
     96, 97, 98, 99, 100, 101, 102, 103, 104, 105, 106, 107, 108, 109, 110, 111,
     112, 113, 114, 115, 116, 117, 118, 119, 120, 121, 122, 123, 124, 125, 126, 127,
     128, 130, 132, 134, 136, 138, 140, 142, 144, 146, 148, 150, 152, 154, 156, 158,
     160, 162, 164, 166, 168, 170, 172, 174, 176, 178, 180, 182, 184, 186, 188, 190,
     192, 194, 196, 198, 200, 202 >>

AtanMidCos ==
  << 16384, 16380, 16372, 16360, 16344, 16324, 16300, 16272, 16240, 16204, 16164, 16120, 16072, 16021, 15965, 15906,
     15843, 15775, 15704, 15629, 15551, 15468, 15382, 15292, 15198, 15101, 14999, 14895, 14786, 14674, 14558, 14439,
     14317, 14190, 14061, 13927, 13791, 13651, 13508, 13361, 13212, 13059, 12902, 12743, 12581, 12415, 12246, 12075,
     11900, 11723, 11543, 11360, 11174, 10985, 10794, 10600, 10404, 10204, 10003, 9799, 9593, 9384, 9173, 8960,
     8744, 8527, 8307, 8085, 7862, 7636, 7409, 7180, 6949, 6716, 6482, 6246, 6008, 5769, 5529, 5288,
     5045, 4800, 4555, 4309, 4061, 3813, 3563, 3313, 3062, 2810, 2557, 2304, 2051, 1796, 1542, 1287,
     1031, 776, 520, 264, 8, -248, -504, -760, -1015, -1271, -1526, -1781, -2035, -2289, -2542, -2794,
     -3046, -3297, -3548, -3797, -4046, -4293, -4540, -4785, -5030, -5273, -5514, -5755, -5994, -6231, -6467, -6702,
     -7050, -7509, -7960, -8404, -8839, -9266, -9683, -10092, -10490, -10878, -11256, -11622, -11977, -12321, -12652, -12971,
     -13278, -13571, -13851, -14118, -14371, -14610, -14834, -15044, -15240, -15420, -15586, -15736, -15871, -15990, -16094, -16182,
     -16254, -16311, -16351, -16375, -16384 >>

AtanMidSin ==
  << 128, 384, 640, 896, 1151, 1406, 1661, 1916, 2170, 2423, 2676, 2928, 3180, 3430, 3680, 3929,
     4177, 4424, 4670, 4915, 5159, 5401, 5642, 5882, 6120, 6357, 6592, 6825, 7057, 7287, 7516, 7742,
     7967, 8190, 8410, 8629, 8846, 9060, 9272, 9482, 9690, 9895, 10098, 10298, 10496, 10691, 10884, 11074,
     11261, 11446, 11628, 11807, 11983, 12156, 12326, 12493, 12657, 12818, 12976, 13131, 13282, 13430, 13575, 13717,
     13855, 13990, 14122, 14250, 14375, 14496, 14613, 14727, 14837, 14944, 15047, 15147, 15243, 15335, 15423, 15507,
     15588, 15665, 15738, 15807, 15873, 15934, 15992, 16046, 16095, 16141, 16183, 16221, 16255, 16285, 16311, 16333,
     16352, 16366, 16376, 16382, 16384, 16382, 16376, 16366, 16353, 16335, 16313, 16287, 16257, 16223, 16186, 16144,
     16098, 16049, 15995, 15938, 15877, 15811, 15742, 15670, 15593, 15512, 15428, 15340, 15248, 15153, 15054, 14951,
     14790, 14562, 14320, 14065, 13795, 13512, 13216, 12907, 12586, 12252, 11906, 11548, 11180, 10800, 10410, 10009,
     9599, 9180, 8751, 8314, 7869, 7416, 6956, 6489, 6016, 5537, 5052, 4563, 4069, 3571, 3070, 2565,
     2058, 1550, 1039, 528, 16 >>

\* f32::cos and f32::sin; the tables cover [-TWO_PI, TWO_PI].
FCos(a) ==
  IF IsNaN(a) \/ IsInf(a) THEN NaN ELSE CosTable[AngleIndex(Abs(a))]

FSin(a) ==
  IF IsNaN(a) \/ IsInf(a) THEN NaN ELSE Sign(a) * SinTable[AngleIndex(Abs(a))]

\* atan2 of a direction of the upper half plane (y >= 0): the representable
\* angle nearest to the true one, found by counting the midpoints of
\* neighbouring representable angles that the direction lies beyond.
AtanUpper(y, x) ==
  AtanAngles[1 + Cardinality({i \in 1..Len(AtanMidCos) :
                                AtanMidCos[i] * y - AtanMidSin[i] * x > 0})]

\* An infinite component dominates a finite one.
AtanArg(a, other) ==
  IF IsInf(a) THEN Sign(a) ELSE IF IsInf(other) THEN 0 ELSE a

\* f32::atan2, y.atan2(x), in [-PI, PI].
FAtan2(y, x) ==
  IF IsNaN(y) \/ IsNaN(x) THEN NaN
  ELSE LET yy == AtanArg(y, x)
           xx == AtanArg(x, y)
       IN  IF yy < 0 THEN -AtanUpper(-yy, xx) ELSE AtanUpper(yy, xx)

\* ----------------------------------------------------------------- Vec2

Vec2New(x, y) == [x |-> x, y |-> y]

Vec2Zero == Vec2New(0, 0)

\* Marshalling between Vec2 and the exchange format Vec2Data = [f32; 2].
Vec2FromData(d) == Vec2New(d[1], d[2])

Vec2ToData(v) == <<v.x, v.y>>

Vec2Len2(v) == FAdd(FMul(v.x, v.x), FMul(v.y, v.y))

Vec2Len(v) == FSqrt(Vec2Len2(v))

Vec2Norm(v) ==
  LET l == Vec2Len(v) IN Vec2New(FDiv(v.x, l), FDiv(v.y, l))

Vec2Rotate(v, a) ==
  LET cos_angle == FCos(a)
      sin_angle == FSin(a)
  IN  Vec2New(FSub(FMul(cos_angle, v.x), FMul(sin_angle, v.y)),
              FAdd(FMul(sin_angle, v.x), FMul(cos_angle, v.y)))

Vec2Add(v, w) == Vec2New(FAdd(v.x, w.x), FAdd(v.y, w.y))

Vec2Sub(v, w) == Vec2New(FSub(v.x, w.x), FSub(v.y, w.y))

Vec2Mul(v, s) == Vec2New(FMul(v.x, s), FMul(v.y, s))

\* Variant: a vector divided by zero is handed back as it is.
Vec2DivKeepingOnZero(v, s) ==
  IF FEq(s, 0) THEN v ELSE Vec2Mul(v, FRecip(s))

\* Variant: the division does not look at the divisor.
Vec2DivUnguarded(v, s) == Vec2Mul(v, FRecip(s))

\* Scalar division: the zero vector when the divisor is zero.
Vec2Div(v, s) ==
  IF FEq(s, 0) THEN Vec2New(0, 0) ELSE Vec2Mul(v, FRecip(s))

\* Sum of a sequence of vectors, accumulated from (0, 0) in iteration order.
RECURSIVE Vec2Sum(_)
Vec2Sum(vs) ==
  IF vs = <<>> THEN Vec2New(0, 0)
  ELSE Vec2Add(Vec2Sum(SubSeq(vs, 1, Len(vs) - 1)), vs[Len(vs)])

\* Variant: the loop runs while the result is not positive.
RECURSIVE TrimLoopWhileNotPositive(_)
TrimLoopWhileNotPositive(result) ==
  IF FLt(result, 0) \/ FEq(result, 0)
  THEN TrimLoopWhileNotPositive(FAdd(result, TWO_PI))
  ELSE result

\* Trim angle in radians to [0, 2*PI]: the while loop of trim_angle.
RECURSIVE TrimLoop(_)
TrimLoop(result) ==
  IF FLt(result, 0) THEN TrimLoop(FAdd(result, TWO_PI)) ELSE result

\* trim_angle without its while loop.
trim_angle_remainder_only(a) == FRem(a, TWO_PI)

\* trim_angle without its remainder.
trim_angle_loop_only(a) == TrimLoop(a)

trim_angle(a) == TrimLoop(FRem(a, TWO_PI))

\* Variant: the angle is handed back as atan2 gives it.
Vec2AngleUntrimmed(v) == FAtan2(v.y, v.x)

Vec2Angle(v) == trim_angle(FAtan2(v.y, v.x))

GRAVITY_CONSTANT == One

\* Gravitational acceleration of a body towards an attractant.
gravity(attractant_position, attractant_mass, body_position) ==
  LET r == Vec2Sub(attractant_position, body_position)
      r2 == Vec2Len2(r)
  IN  Vec2Div(Vec2Mul(Vec2Mul(Vec2Norm(r), GRAVITY_CONSTANT), attractant_mass), r2)

\* ------------------------------------------------------ repo: GameState

MovingObjectDefault ==
  [position |-> <<0, 0>>, angle |-> 0, velocity |-> <<0, 0>>,
   acceleration |-> <<0, 0>>]

PlayerStateDefault ==
  [player_object |-> MovingObjectDefault, missiles |-> <<>>]

StarData(position, mass) == [pos |-> position, mass |-> mass]

\* GameState::add_player: a new or reset player.
add_player(gs, id) ==
  [gs EXCEPT !.player =
     [p \in DOMAIN gs.player \cup {id} |->
        IF p = id THEN PlayerStateDefault ELSE gs.player[p]]]

\* GameState::new: no stars, players 1 and 2.
GameStateNew ==
  add_player(add_player([stars |-> <<>>, player |-> <<>>], 1), 2)

add_star(gs, star) == [gs EXCEPT !.stars = Append(@, star)]

\* get_player and get_player_mut panic on an id the map does not hold.
PlayerFound(gs, id) == id \in DOMAIN gs.player

get_player(gs, id) == gs.player[id]

\* Variant: the missile is inserted in front of the player's vector.
add_missile_in_front(gs, player_id, data) ==
  [gs EXCEPT !.player[player_id].missiles = <<data>> \o @]

\* Variant: the missile is pushed onto every player's vector.
add_missile_to_all(gs, player_id, data) ==
  [gs EXCEPT !.player =
     [p \in DOMAIN @ |-> [@[p] EXCEPT !.missiles = Append(@, data)]]]

add_missile(gs, player_id, data) ==
  [gs EXCEPT !.player[player_id].missiles = Append(@, data)]

\* Missile ids are the 0-based indices of the player's missile vector.
get_missile(gs, player_id, missile_id) ==
  gs.player[player_id].missiles[missile_id + 1]

\* The repository as a use case holds it: the game state and the log of
\* the gateway calls made on it.
Repo(gs) == [state |-> gs, calls |-> <<>>]

Called(repo, name) == [repo EXCEPT !.calls = Append(@, name)]

\* iter_player: the players in the iteration order of the HashMap.
iter_player(gs, order) ==
  [i \in 1..Len(order) |-> <<order[i], gs.player[order[i]]>>]

RECURSIVE iter_missiles(_, _)
iter_missiles(gs, order) ==
  IF order = <<>> THEN <<>>
  ELSE LET p_id == order[1]
           missiles == gs.player[p_id].missiles
       IN  [m \in 1..Len(missiles) |-> <<p_id, m - 1, missiles[m]>>]
             \o iter_missiles(gs, Tail(order))

\* PlayerMovementDataGateway for RefCell<GameState>
get_player_orientation(repo, id) ==
  get_player(repo.state, id).player_object.angle

set_player_orientation(repo, id, orientation) ==
  Called([repo EXCEPT !.state.player[id].player_object.angle = orientation],
         "set_player_orientation")

get_player_acceleration(repo, id) ==
  get_player(repo.state, id).player_object.acceleration

\* Variant: the acceleration is written to every player.
set_acceleration_of_all(repo, id, acceleration) ==
  Called([repo EXCEPT !.state.player =
            [p \in DOMAIN @ |->
               [@[p] EXCEPT !.player_object.acceleration = acceleration]]],
         "set_player_acceleration")

set_player_acceleration(repo, id, acceleration) ==
  Called([repo EXCEPT
            !.state.player[id].player_object.acceleration = acceleration],
         "set_player_acceleration")

\* ShootDataGateway for RefCell<GameState>
get_player_pos_and_velocity(repo, id) ==
  LET obj == get_player(repo.state, id).player_object
  IN  [pos |-> obj.position, angle |-> obj.angle, velocity |-> obj.velocity]

\* Variant: only the missiles that carry no acceleration are counted.
get_player_missile_count_at_rest(repo, id) ==
  LET missiles == get_player(repo.state, id).missiles
  IN  Cardinality({ i \in DOMAIN missiles : missiles[i].acceleration = <<0, 0>> })

get_player_missile_count(repo, id) ==
  Len(get_player(repo.state, id).missiles)

\* Variant: the missile starts with its velocity as its acceleration.
create_missile_accelerated(repo, id, missile) ==
  LET missile_obj ==
        [MovingObjectDefault EXCEPT !.position = missile.pos,
                                    !.angle = missile.angle,
                                    !.velocity = missile.velocity,
                                    !.acceleration = missile.velocity]
  IN  Called([repo EXCEPT !.state = add_missile(@, id, missile_obj)],
             "create_missile_for_player")

create_missile_for_player(repo, id, missile) ==
  LET missile_obj ==
        [MovingObjectDefault EXCEPT !.position = missile.pos,
                                    !.angle = missile.angle,
                                    !.velocity = missile.velocity]
  IN  Called([repo EXCEPT !.state = add_missile(@, id, missile_obj)],
             "create_missile_for_player")

\* GravityDataGateway for RefCell<GameState>
get_stars_position_and_mass(repo) == repo.state.stars

get_player_pos_and_acc(repo, order) ==
  LET ps == iter_player(repo.state, order)
  IN  [i \in 1..Len(ps) |->
         <<ps[i][1], ps[i][2].player_object.position,
           ps[i][2].player_object.acceleration>>]

get_missile_pos_and_acc(repo, order) ==
  LET ms == iter_missiles(repo.state, order)
  IN  [i \in 1..Len(ms) |->
         <<ms[i][1], ms[i][2], ms[i][3].position, ms[i][3].acceleration>>]

\* Variant: the setter writes the value to the velocity as well.
RECURSIVE ApplyPlayerAccAndVelocity(_, _)
ApplyPlayerAccAndVelocity(gs, updates) ==
  IF updates = <<>> THEN gs
  ELSE LET u == updates[1]
       IN  ApplyPlayerAccAndVelocity(
             [gs EXCEPT !.player[u[1]].player_object =
                [@ EXCEPT !.acceleration = u[2], !.velocity = u[2]]],
             Tail(updates))

RECURSIVE ApplyPlayerAcc(_, _)
ApplyPlayerAcc(gs, updates) ==
  IF updates = <<>> THEN gs
  ELSE LET u == updates[1]
       IN  ApplyPlayerAcc(
             [gs EXCEPT !.player[u[1]].player_object.acceleration = u[2]],
             Tail(updates))

set_acceleration_for_player(repo, updates) ==
  Called([repo EXCEPT !.state = ApplyPlayerAcc(@, updates)],
         "set_acceleration_for_player")

\* Variant: the acceleration is written to every missile of the player.
RECURSIVE ApplyMissileAccOfPlayer(_, _)
ApplyMissileAccOfPlayer(gs, updates) ==
  IF updates = <<>> THEN gs
  ELSE LET u == updates[1]
       IN  ApplyMissileAccOfPlayer(
             [gs EXCEPT !.player[u[1]].missiles =
                [m \in DOMAIN @ |-> [@[m] EXCEPT !.acceleration = u[3]]]],
             Tail(updates))

RECURSIVE ApplyMissileAcc(_, _)
ApplyMissileAcc(gs, updates) ==
  IF updates = <<>> THEN gs
  ELSE LET u == updates[1]
       IN  ApplyMissileAcc(
             [gs EXCEPT !.player[u[1]].missiles[u[2] + 1].acceleration = u[3]],
             Tail(updates))

set_acceleration_for_missiles(repo, updates) ==
  Called([repo EXCEPT !.state = ApplyMissileAcc(@, updates)],
         "set_acceleration_for_missiles")

\* IntegrateDataGateway for RefCell<GameState>
get_player_info(repo, order) ==
  LET ps == iter_player(repo.state, order)
  IN  [i \in 1..Len(ps) |->
         <<ps[i][1], ps[i][2].player_object.position,
           ps[i][2].player_object.velocity,
           ps[i][2].player_object.acceleration>>]

get_missile_info(repo, order) ==
  LET ms == iter_missiles(repo.state, order)
  IN  [i \in 1..Len(ms) |->
         <<ms[i][1], ms[i][2], ms[i][3].position, ms[i][3].velocity,
           ms[i][3].acceleration>>]

RECURSIVE ApplyPlayerInfo(_, _)
ApplyPlayerInfo(gs, data) ==
  IF data = <<>> THEN gs
  ELSE LET d == data[1]
       IN  ApplyPlayerInfo(
             [gs EXCEPT !.player[d[1]].player_object =
                [@ EXCEPT !.position = d[2], !.velocity = d[3],
                          !.acceleration = d[4]]],
             Tail(data))

set_player_info(repo, data) ==
  Called([repo EXCEPT !.state = ApplyPlayerInfo(@, data)], "set_player_info")

\* Variant: the setter turns the missile into the direction of its velocity.
RECURSIVE ApplyMissileInfoTurning(_, _)
ApplyMissileInfoTurning(gs, data) ==
  IF data = <<>> THEN gs
  ELSE LET d == data[1]
       IN  ApplyMissileInfoTurning(
             [gs EXCEPT !.player[d[1]].missiles[d[2] + 1] =
                [@ EXCEPT !.position = d[3], !.velocity = d[4],
                          !.acceleration = d[5],
                          !.angle = Vec2Angle(Vec2FromData(d[4]))]],
             Tail(data))

RECURSIVE ApplyMissileInfo(_, _)
ApplyMissileInfo(gs, data) ==
  IF data = <<>> THEN gs
  ELSE LET d == data[1]
       IN  ApplyMissileInfo(
             [gs EXCEPT !.player[d[1]].missiles[d[2] + 1] =
                [@ EXCEPT !.position = d[3], !.velocity = d[4],
                          !.acceleration = d[5]]],
             Tail(data))

set_missile_info(repo, data) ==
  Called([repo EXCEPT !.state = ApplyMissileInfo(@, data)], "set_missile_info")

\* The gateway calls that address one player, and the bulk setters that
\* address the players or missiles named by their data.
PlayerCalls ==
  { "get_player_orientation", "set_player_orientation",
    "get_player_acceleration", "set_player_acceleration",
    "get_player_pos_and_velocity", "get_player_missile_count",
    "create_missile_for_player" }

PlayerBulkCalls == { "set_acceleration_for_player", "set_player_info" }

MissileBulkCalls == { "set_acceleration_for_missiles", "set_missile_info" }

\* Variant: an id the map does not hold is passed over.
get_player_passes_over_unknown(gs, id) == FALSE

\* self.player.get(id).expect("Player not found") panics on None.
get_player_panics(gs, id) == id \notin DOMAIN gs.player

\* missiles[missile_id] panics on an index outside the vector.
get_missile_mut_panics(gs, player_id, missile_id) ==
  \/ get_player_panics(gs, player_id)
  \/ missile_id + 1 \notin DOMAIN gs.player[player_id].missiles

\* What a gateway call leaves: the game state, and whether it panicked.
Outcome(gs, panic) == [state |-> gs, panic |-> panic]

\* The launch data and the info tuple built from a value: position,
\* orientation or velocity, and acceleration that differ from one another.
LaunchOf(value) ==
  [pos |-> value, angle |-> value[1], velocity |-> <<value[2], value[1]>>]

InfoOf(value) == <<value, <<value[2], value[1]>>, <<value[1], value[1]>>>>

\* A gateway call for one player; value is what a setter is handed.
call_for_player(gs, name, id, value) ==
  IF get_player_panics(gs, id) THEN Outcome(gs, TRUE)
  ELSE Outcome(
         CASE name = "set_player_orientation" ->
                set_player_orientation(Repo(gs), id, value[1]).state
           [] name = "set_player_acceleration" ->
                set_player_acceleration(Repo(gs), id, value).state
           [] name = "create_missile_for_player" ->
                create_missile_for_player(Repo(gs), id, LaunchOf(value)).state
           [] OTHER -> gs,
         FALSE)

\* A bulk setter: the entries are applied in order under one borrow_mut, up
\* to the first one that panics. An entry is <<player id, missile id>>;
\* the acceleration setters are handed value, the info setters InfoOf(value).
RECURSIVE call_in_bulk(_, _, _, _)
call_in_bulk(gs, name, data, value) ==
  IF data = <<>> THEN Outcome(gs, FALSE)
  ELSE LET d == data[1]
       IN  IF name \in PlayerBulkCalls
           THEN IF get_player_panics(gs, d[1]) THEN Outcome(gs, TRUE)
                ELSE call_in_bulk(
                       IF name = "set_acceleration_for_player"
                       THEN ApplyPlayerAcc(gs, << <<d[1], value>> >>)
                       ELSE ApplyPlayerInfo(gs, << <<d[1]>> \o InfoOf(value) >>),
                       name, Tail(data), value)
           ELSE IF get_missile_mut_panics(gs, d[1], d[2]) THEN Outcome(gs, TRUE)
                ELSE call_in_bulk(
                       IF name = "set_acceleration_for_missiles"
                       THEN ApplyMissileAcc(gs, << <<d[1], d[2], value>> >>)
                       ELSE ApplyMissileInfo(
                              gs, << <<d[1], d[2]>> \o InfoOf(value) >>),
                       name, Tail(data), value)

\* ------------------------------------------------ user_input: movement

\* f32::to_radians multiplies by PI / 180.
RadsPerDeg == FDiv(PI, 180 * One)

MoveConfigNew(angle_deg, acceleration) ==
  [angle_per_frame |-> FMul(angle_deg, RadsPerDeg),
   acceleration |-> acceleration]

\* Variant: the new orientation is stored without being trimmed.
player_rotate_untrimmed(repo, player_id, rot) ==
  LET orientation == get_player_orientation(repo, player_id)
  IN  set_player_orientation(Called(repo, "get_player_orientation"),
                             player_id, FAdd(orientation, rot))

\* Rotate player by angle
player_rotate(repo, player_id, rot) ==
  LET orientation == get_player_orientation(repo, player_id)
      new_orientation == trim_angle(FAdd(orientation, rot))
  IN  set_player_orientation(Called(repo, "get_player_orientation"),
                             player_id, new_orientation)

\* Variant: RotateLeft turns by twice the configured increment.
player_rotate_left_doubled(repo, config, player_id) ==
  player_rotate(repo, player_id,
                FAdd(config.angle_per_frame, config.angle_per_frame))

player_rotate_left(repo, config, player_id) ==
  player_rotate(repo, player_id, config.angle_per_frame)

\* Variant: the orientation is read once to decide and once more to compute.
player_rotate_right_reading_twice(repo, config, player_id) ==
  player_rotate(Called(repo, "get_player_orientation"), player_id,
                FNeg(config.angle_per_frame))

player_rotate_right(repo, config, player_id) ==
  player_rotate(repo, player_id, FNeg(config.angle_per_frame))

\* Variant: the thrust replaces the acceleration the player had.
player_accelerate_overwriting(repo, config, player_id) ==
  LET orientation == get_player_orientation(repo, player_id)
      new_acc == Vec2Rotate(Vec2New(config.acceleration, 0), orientation)
  IN  set_player_acceleration(
        Called(Called(repo, "get_player_orientation"), "get_player_acceleration"),
        player_id, Vec2ToData(new_acc))

\* accelerate player in current direction by fixed amount
player_accelerate(repo, config, player_id) ==
  LET orientation == get_player_orientation(repo, player_id)
      acc == Vec2FromData(get_player_acceleration(repo, player_id))
      new_acc == Vec2Add(Vec2Rotate(Vec2New(config.acceleration, 0), orientation),
                         acc)
  IN  set_player_acceleration(
        Called(Called(repo, "get_player_orientation"), "get_player_acceleration"),
        player_id, Vec2ToData(new_acc))

MoveInstruction == {"RotateLeft", "RotateRight", "Accelerate"}

\* MoveCommand::execute
MoveCommandExecute(repo, config, player_id, instruction) ==
  CASE instruction = "RotateLeft" -> player_rotate_left(repo, config, player_id)
    [] instruction = "RotateRight" -> player_rotate_right(repo, config, player_id)
    [] instruction = "Accelerate" -> player_accelerate(repo, config, player_id)

\* ------------------------------------------------ user_input: shooting

MissileConfigNew(max_missile, initial_speed, initial_distance) ==
  [max |-> max_missile, initial_speed |-> initial_speed,
   initial_distance |-> initial_distance]

\* From<PlayerPosAndVelocityData> for PlayerPosAndVelocity and back
PlayerPosAndVelocityFromData(d) ==
  [pos |-> Vec2FromData(d.pos), angle |-> d.angle,
   velocity |-> Vec2FromData(d.velocity)]

PlayerPosAndVelocityToData(p) ==
  [pos |-> Vec2ToData(p.pos), angle |-> p.angle,
   velocity |-> Vec2ToData(p.velocity)]

\* Variant: the cap is compared with > instead of >=.
max_missile_exceeded_for_player(repo, config, player_id) ==
  get_player_missile_count(repo, player_id) > config.max

max_missile_reached_for_player(repo, config, player_id) ==
  get_player_missile_count(repo, player_id) >= config.max

\* Variant: the missile takes over the player's orientation.
create_missile_facing_as_player(repo, config, player_id) ==
  LET player == PlayerPosAndVelocityFromData(
                  get_player_pos_and_velocity(repo, player_id))
      missile_pos ==
        Vec2Add(player.pos,
                Vec2Rotate(Vec2New(config.initial_distance, 0), player.angle))
      missile_vel ==
        Vec2Add(player.velocity,
                Vec2Rotate(Vec2New(config.initial_speed, 0), player.angle))
      new_missile ==
        [pos |-> missile_pos, angle |-> player.angle, velocity |-> missile_vel]
  IN  create_missile_for_player(Called(repo, "get_player_pos_and_velocity"),
                                player_id,
                                PlayerPosAndVelocityToData(new_missile))

create_missile(repo, config, player_id) ==
  LET player == PlayerPosAndVelocityFromData(
                  get_player_pos_and_velocity(repo, player_id))
      missile_pos ==
        Vec2Add(player.pos,
                Vec2Rotate(Vec2New(config.initial_distance, 0), player.angle))
      missile_vel ==
        Vec2Add(player.velocity,
                Vec2Rotate(Vec2New(config.initial_speed, 0), player.angle))
      missile_angle == Vec2Angle(missile_vel)
      new_missile ==
        [pos |-> missile_pos, angle |-> missile_angle, velocity |-> missile_vel]
  IN  create_missile_for_player(Called(repo, "get_player_pos_and_velocity"),
                                player_id,
                                PlayerPosAndVelocityToData(new_missile))

\* Variant: the missile is created without looking at the count.
shoot_unchecked(repo, config, player_id) ==
  create_missile(Called(repo, "get_player_missile_count"), config, player_id)

\* ShootCommand::shoot
shoot(repo, config, player_id) ==
  LET counted == Called(repo, "get_player_missile_count")
  IN  IF max_missile_reached_for_player(repo, config, player_id)
      THEN counted
      ELSE create_missile(counted, config, player_id)

\* ----------------------------------------------------- physics: Gravity

\* Marshalling<Star> for StarData
StarConvert(s) == [pos |-> Vec2FromData(s.pos), mass |-> s.mass]

get_stars(repo) ==
  LET data == get_stars_position_and_mass(repo)
  IN  [i \in 1..Len(data) |-> StarConvert(data[i])]

\* The sum over the stars of their attraction on a body at body_pos.
StarsGravity(stars, body_pos) ==
  Vec2Sum([i \in 1..Len(stars) |->
             gravity(stars[i].pos, stars[i].mass, body_pos)])

\* Variant: the attraction is accumulated from one player to the next.
apply_gravitation_running_total(repo, stars, order) ==
  LET players == get_player_pos_and_acc(repo, order)
      acc_updates ==
        [i \in 1..Len(players) |->
           <<players[i][1],
             Vec2ToData(Vec2Add(
               Vec2FromData(players[i][3]),
               Vec2Sum([j \in 1..i |->
                          StarsGravity(stars, Vec2FromData(players[j][2]))])))>>]
  IN  set_acceleration_for_player(Called(repo, "get_player_pos_and_acc"),
                                  acc_updates)

\* Variant: the attraction replaces the acceleration a player had.
apply_gravitation_replacing_thrust(repo, stars, order) ==
  LET players == get_player_pos_and_acc(repo, order)
      acc_updates ==
        [i \in 1..Len(players) |->
           <<players[i][1],
             Vec2ToData(StarsGravity(stars, Vec2FromData(players[i][2])))>>]
  IN  set_acceleration_for_player(Called(repo, "get_player_pos_and_acc"),
                                  acc_updates)

apply_gravitation_to_players(repo, stars, order) ==
  LET players == get_player_pos_and_acc(repo, order)
      acc_updates ==
        [i \in 1..Len(players) |->
           <<players[i][1],
             Vec2ToData(Vec2Add(Vec2FromData(players[i][3]),
                                StarsGravity(stars, Vec2FromData(players[i][2]))))>>]
  IN  set_acceleration_for_player(Called(repo, "get_player_pos_and_acc"),
                                  acc_updates)

\* Variant: the attraction replaces the acceleration a missile had.
apply_gravitation_overwriting(repo, stars, order) ==
  LET missiles == get_missile_pos_and_acc(repo, order)
      acc_updates ==
        [i \in 1..Len(missiles) |->
           <<missiles[i][1], missiles[i][2],
             Vec2ToData(StarsGravity(stars, Vec2FromData(missiles[i][3])))>>]
  IN  set_acceleration_for_missiles(Called(repo, "get_missile_pos_and_acc"),
                                    acc_updates)

apply_gravitation_to_missiles(repo, stars, order) ==
  LET missiles == get_missile_pos_and_acc(repo, order)
      acc_updates ==
        [i \in 1..Len(missiles) |->
           <<missiles[i][1], missiles[i][2],
             Vec2ToData(Vec2Add(Vec2FromData(missiles[i][4]),
                                StarsGravity(stars, Vec2FromData(missiles[i][3]))))>>]
  IN  set_acceleration_for_missiles(Called(repo, "get_missile_pos_and_acc"),
                                    acc_updates)

\* Variant: the attraction is applied twice.
GravityExecuteTwice(repo, order) ==
  LET stars == get_stars(repo)
      r1 == Called(repo, "get_stars_position_and_mass")
      r2 == apply_gravitation_to_players(r1, stars, order)
      r3 == apply_gravitation_to_missiles(r2, stars, order)
      r4 == apply_gravitation_to_players(r3, stars, order)
  IN  apply_gravitation_to_missiles(r4, stars, order)

\* Variant: the pass takes the stars out of the store as it reads them.
GravityExecuteDrainingStars(repo, order) ==
  LET stars == get_stars(repo)
      r1 == Called(repo, "get_stars_position_and_mass")
      r2 == apply_gravitation_to_players(r1, stars, order)
      r3 == apply_gravitation_to_missiles(r2, stars, order)
  IN  [r3 EXCEPT !.state.stars = <<>>]

\* Gravity::execute
GravityExecute(repo, order) ==
  LET stars == get_stars(repo)
      r1 == Called(repo, "get_stars_position_and_mass")
      r2 == apply_gravitation_to_players(r1, stars, order)
  IN  apply_gravitation_to_missiles(r2, stars, order)

\* --------------------------------------------------- physics: Integrate

\* Variant: the increment is added whatever the time step.
integrate_unscaled(v, inc, delta_time) == Vec2Add(v, inc)

\* Integrate a vector in time using eulers method
integrate(v, inc, delta_time) == Vec2Add(v, Vec2Mul(inc, delta_time))

\* Variant: the position is advanced with the velocity just computed
\* (semi-implicit Euler).
integrate_with_new_velocity(pos, vel, acc, delta_time) ==
  LET new_vel == integrate(vel, acc, delta_time)
  IN  <<integrate(pos, new_vel, delta_time), new_vel, Vec2Zero>>

\* Variant: the acceleration is handed back as it was.
integrate_keeping_acc(pos, vel, acc, delta_time) ==
  <<integrate(pos, vel, delta_time), integrate(vel, acc, delta_time), acc>>

\* Integrate position and velocity and set acceleration to zero
integrate_pos_vel_and_acc(pos, vel, acc, delta_time) ==
  <<integrate(pos, vel, delta_time), integrate(vel, acc, delta_time), Vec2Zero>>

integrate_player(repo, delta_time, order) ==
  LET info == get_player_info(repo, order)
      data ==
        [i \in 1..Len(info) |->
           LET pva == integrate_pos_vel_and_acc(
                        Vec2FromData(info[i][2]), Vec2FromData(info[i][3]),
                        Vec2FromData(info[i][4]), delta_time)
           IN  <<info[i][1], Vec2ToData(pva[1]), Vec2ToData(pva[2]),
                 Vec2ToData(pva[3])>>]
  IN  set_player_info(Called(repo, "get_player_info"), data)

integrate_missiles(repo, delta_time, order) ==
  LET info == get_missile_info(repo, order)
      data ==
        [i \in 1..Len(info) |->
           LET pva == integrate_pos_vel_and_acc(
                        Vec2FromData(info[i][3]), Vec2FromData(info[i][4]),
                        Vec2FromData(info[i][5]), delta_time)
           IN  <<info[i][1], info[i][2], Vec2ToData(pva[1]), Vec2ToData(pva[2]),
                 Vec2ToData(pva[3])>>]
  IN  set_missile_info(Called(repo, "get_missile_info"), data)

\* Integrate::execute
IntegrateExecute(repo, delta_time, order) ==
  integrate_missiles(integrate_player(repo, delta_time, order), delta_time, order)

\* ------------------------------------------------------ the state machine

VARIABLES
  state,           \* the RefCell<GameState> shared by every use case
  move_config,     \* MoveCommandFactory.config
  missile_config,  \* ShootCommandFactory.config
  panicked,        \* a gateway call panicked ("Player not found")
  last,            \* the use case executed last, its input and gateway calls
  prev,            \* the game state that use case started from
  steps,           \* number of use cases executed so far
  budget,          \* number of use cases the run may execute
  trim,            \* an angle handed to trim_angle, and what it returned
  before,          \* the use case executed before the last one, and its start
  frame,           \* the frame of the calling loop: its phase, start and thrusts
  quotient         \* a vector and a scalar handed to Div, and what it returned

vars ==
  <<state, move_config, missile_config, panicked, last, prev, steps, budget,
    trim, before, frame, quotient>>

\* Number of use-case executions explored.
MaxSteps == 4

\* Number of use-case executions explored when Gravity passes are compared.
MaxPassSteps == 3

\* Largest missile cap configured.
MaxCap == 3

\* The ids commands are issued for: the players GameState::new creates.
CommandIds == {1, 2}

\* Frame durations handed to Integrate::execute: 0 and 2.
DeltaTimes == {0, 2 * One}

\* The games played: the stars added to the new game state, then the
\* missiles' initial_speed and initial_distance, then the missile caps.
\* No star, with every cap; one star at the origin; two stars, with fast
\* missiles launched far out.
Setups ==
  { <<<<>>, One, 2 * One, 0..MaxCap>>,
    <<<<StarData(<<0, 0>>, 10 * One)>>, One, 2 * One, {2}>>,
    <<<<StarData(<<0, 0>>, 10 * One), StarData(<<3 * One, 4 * One>>, 25 * One)>>,
      100 * One, 500 * One, {1}>> }

\* 90 degrees per command, thrust 1.
MoveConfigs == { MoveConfigNew(90 * One, One) }

RECURSIVE AddStars(_, _)
AddStars(gs, stars) ==
  IF stars = <<>> THEN gs ELSE AddStars(add_star(gs, stars[1]), Tail(stars))

\* The orders a HashMap may iterate its keys in.
Orders(keys) ==
  { o \in [1..Cardinality(keys) -> keys] : \A k \in keys : \E i \in DOMAIN o : o[i] = k }

Executed(op, id, instruction, dt, calls) ==
  [op |-> op, id |-> id, instruction |-> instruction, dt |-> dt, calls |-> calls]

\* A frame that starts from game state gs: no command executed yet.
NewFrame(gs, number) ==
  [phase |-> "input", start |-> gs,
   thrusts |-> [p \in DOMAIN gs.player |-> <<>>], number |-> number]

\* A new game of one of the setups, with the given number of executions ahead.
Started(setups, move_configs, n) ==
  /\ \E setup \in setups :
     \E cap \in setup[4] :
       /\ state = AddStars(GameStateNew, setup[1])
       /\ missile_config = MissileConfigNew(cap, setup[2], setup[3])
  /\ move_config \in move_configs
  /\ panicked = FALSE
  /\ last = Executed("new", 0, "", 0, <<>>)
  /\ prev = state
  /\ steps = 0
  /\ budget = n
  /\ before = [last |-> last, prev |-> prev]
  /\ frame = NewFrame(state, 1)

Start(setups, n) == Started(setups, MoveConfigs, n)

\* No vector was divided.
Undivided == [v |-> Vec2Zero, s |-> One, result |-> Vec2Zero, applied |-> FALSE]

\* No angle was handed to trim_angle.
Untrimmed ==
  [theta |-> 0, result |-> 0, applied |-> FALSE, again |-> 0, twice |-> FALSE,
   k |-> 0, turned |-> 0]

Init == Start(Setups, MaxSteps) /\ trim = Untrimmed /\ quotient = Undivided

\* The games with stars, for the comparison of Gravity passes.
InitPass ==
  /\ Start({ setup \in Setups : setup[1] # <<>> }, MaxPassSteps)
  /\ trim = Untrimmed /\ quotient = Undivided

\* A use case ran to its end on the repository.
Ran(op, id, instruction, dt, repo) ==
  /\ state' = repo.state
  /\ last' = Executed(op, id, instruction, dt, repo.calls)
  /\ prev' = state
  /\ steps' = steps + 1
  /\ UNCHANGED <<move_config, missile_config, panicked, budget, trim, quotient>>

\* The move command of a player the store knows.
Moved(id, instruction) ==
  /\ PlayerFound(state, id)
  /\ Ran("Move", id, instruction, 0,
         MoveCommandExecute(Repo(state), move_config, id, instruction))

\* The shoot command of a player the store knows.
Shot(id) ==
  /\ PlayerFound(state, id)
  /\ Ran("Shoot", id, "", 0, shoot(Repo(state), missile_config, id))

\* A Gravity pass, in one of the iteration orders of the players.
Pulled ==
  \E order \in Orders(DOMAIN state.player) :
    Ran("Gravity", 0, "", 0, GravityExecute(Repo(state), order))

\* An Integration pass over dt.
Integrated(dt) ==
  \E order \in Orders(DOMAIN state.player) :
    Ran("Integrate", 0, "", dt, IntegrateExecute(Repo(state), dt, order))

Move ==
  /\ ~panicked /\ steps < budget
  /\ \E id \in CommandIds, instruction \in MoveInstruction : Moved(id, instruction)
  /\ UNCHANGED <<before, frame>>

Shoot ==
  /\ ~panicked /\ steps < budget
  /\ \E id \in CommandIds : Shot(id)
  /\ UNCHANGED <<before, frame>>

Gravity ==
  /\ ~panicked /\ steps < budget
  /\ Pulled
  /\ UNCHANGED <<before, frame>>

Integrate ==
  /\ ~panicked /\ steps < budget
  /\ \E dt \in DeltaTimes : Integrated(dt)
  /\ UNCHANGED <<before, frame>>

Next == Move \/ Shoot \/ Gravity \/ Integrate

Spec == Init /\ [][Next]_vars

SpecPass == InitPass /\ [][Next]_vars

\* ------------------------------------------------ trim_angle on its own

\* Largest magnitude, in units of 1/64, of the angles handed to trim_angle:
\* five turns.
MaxTheta == 2048

\* The f32 angles handed to trim_angle: every value of the format up to
\* MaxTheta in magnitude, NaN and the infinities.
Thetas == { FAdd(k, 0) : k \in (-MaxTheta)..MaxTheta } \cup {NaN, PosInf, NegInf}

\* A new game nobody plays, and an angle.
InitTrim ==
  /\ Start({ <<<<>>, One, 2 * One, {0}>> }, 0)
  /\ \E theta \in Thetas : trim = [Untrimmed EXCEPT !.theta = theta]
  /\ quotient = Undivided

TrimAngle ==
  /\ ~trim.applied
  /\ trim' = [trim EXCEPT !.result = trim_angle(trim.theta), !.applied = TRUE]
  /\ UNCHANGED <<state, move_config, missile_config, panicked, last, prev,
                 steps, budget, before, frame, quotient>>

\* What trim_angle returned is handed to trim_angle.
TrimAgain ==
  /\ trim.applied /\ ~trim.twice
  /\ trim' = [trim EXCEPT !.again = trim_angle(trim.result), !.twice = TRUE]
  /\ UNCHANGED <<state, move_config, missile_config, panicked, last, prev,
                 steps, budget, before, frame, quotient>>

\* Largest number of whole turns added to an angle.
MaxTurns == 2

\* The angle plus k whole turns, k # 0, is handed to trim_angle: the f32
\* expression theta + k * TWO_PI.
TrimTurned ==
  /\ trim.applied /\ trim.k = 0
  /\ \E k \in ((-MaxTurns)..MaxTurns) \ {0} :
       trim' = [trim EXCEPT
                  !.k = k,
                  !.turned = trim_angle(FAdd(trim.theta, FMul(k * One, TWO_PI)))]
  /\ UNCHANGED <<state, move_config, missile_config, panicked, last, prev,
                 steps, budget, before, frame, quotient>>

NextTrim == TrimAngle \/ TrimAgain \/ TrimTurned

SpecTrim == InitTrim /\ [][NextTrim]_vars

\* ------------------------------------------------- Div on its own

\* Largest whole number among the components and divisors.
MaxComponent == 3

\* The f32 values the components of the vector and the divisor are drawn
\* from: whole numbers, the smallest and the largest positive value, a
\* value that is not a power of two times a whole number's reciprocal, NaN
\* and the infinities.
Scalars ==
  { k * One : k \in (-MaxComponent)..MaxComponent }
    \cup {1, 5, MaxFinite, NaN, PosInf, NegInf}

\* A new game nobody plays, a vector and a scalar.
InitDiv ==
  /\ Start({ <<<<>>, One, 2 * One, {0}>> }, 0)
  /\ trim = Untrimmed
  /\ \E x \in Scalars, y \in Scalars, s \in Scalars :
       quotient = [Undivided EXCEPT !.v = Vec2New(x, y), !.s = s]

Divide ==
  /\ ~quotient.applied
  /\ quotient' = [quotient EXCEPT !.result = Vec2Div(quotient.v, quotient.s),
                                  !.applied = TRUE]
  /\ UNCHANGED <<state, move_config, missile_config, panicked, last, prev,
                 steps, budget, trim, before, frame>>

NextDiv == Divide

SpecDiv == InitDiv /\ [][NextDiv]_vars

\* ------------------------------------------- gateway calls by address

\* Number of gateway calls and Shoot commands executed.
MaxCalls == 3

\* The player ids and missile ids gateway calls are made for: the players
\* GameState::new creates and one it does not; the first two missile ids.
AddressedIds == {1, 2, 3}

AddressedMissiles == {0, 1}

\* The data of the bulk setters: one or two entries.
BulkData ==
  LET entries == AddressedIds \X AddressedMissiles
  IN  { <<e>> : e \in entries } \cup (entries \X entries)

\* What the setters are handed: a vector no object of the game holds.
Written == <<3 * One, 5 * One>>

\* A new game without stars and two missiles per player allowed.
InitGateway ==
  /\ Started({ <<<<>>, One, 2 * One, {2}>> }, MoveConfigs, MaxCalls)
  /\ trim = Untrimmed /\ quotient = Undivided

\* A gateway call ended: it returned or it panicked.
Answered(name, data, outcome) ==
  /\ state' = outcome.state
  /\ panicked' = outcome.panic
  /\ last' = [op |-> name, id |-> 0, instruction |-> "", dt |-> 0,
              calls |-> <<name>>, data |-> data]
  /\ prev' = state
  /\ steps' = steps + 1
  /\ UNCHANGED <<move_config, missile_config, budget, trim, before, frame,
                 quotient>>

CallForPlayer ==
  /\ ~panicked /\ steps < budget
  /\ \E name \in PlayerCalls, id \in AddressedIds :
       Answered(name, << <<id, 0>> >>, call_for_player(state, name, id, Written))

CallInBulk ==
  /\ ~panicked /\ steps < budget
  /\ \E name \in PlayerBulkCalls \cup MissileBulkCalls, data \in BulkData :
       Answered(name, data, call_in_bulk(state, name, data, Written))

NextGateway == Shoot \/ CallForPlayer \/ CallInBulk

SpecGateway == InitGateway /\ [][NextGateway]_vars

\* ------------------------------------------- move commands in sequence

\* Number of move commands executed in sequence.
MaxTurnSteps == 4

\* The rotations per command, in degrees, the turns are configured with.
TurnDegrees == {90, 1, -45, 300}

TurnConfigs == { MoveConfigNew(d * One, One) : d \in TurnDegrees }

\* A new game without stars, and a configured increment.
InitTurn ==
  /\ Started({ <<<<>>, One, 2 * One, {0}>> }, TurnConfigs, MaxTurnSteps)
  /\ trim = Untrimmed /\ quotient = Undivided

\* A move command, remembering the use case it follows.
Turn ==
  /\ ~panicked /\ steps < budget
  /\ \E id \in CommandIds, instruction \in MoveInstruction : Moved(id, instruction)
  /\ before' = [last |-> last, prev |-> prev]
  /\ UNCHANGED frame

NextTurn == Turn

SpecTurn == InitTurn /\ [][NextTurn]_vars

\* --------------------------------------------------- the frame loop

\* Number of use cases the frame loop executes.
MaxFrameSteps == 6

\* The player whose input events the loop receives.
FrameIds == {1}

\* A game with stars.
InitFrame ==
  /\ Start({ setup \in Setups : setup[1] # <<>> }, MaxFrameSteps)
  /\ trim = Untrimmed /\ quotient = Undivided

\* The frame a use case runs in: a new one once the last is complete.
Begun ==
  IF frame.phase = "done" THEN NewFrame(state, frame.number + 1) ELSE frame

\* The thrust an Accelerate command adds at an orientation.
Thrust(orientation) ==
  Vec2Rotate(Vec2New(move_config.acceleration, 0), orientation)

\* Input comes first: a move command before the frame's Gravity pass.
FrameMove ==
  /\ ~panicked /\ steps < budget
  /\ frame.phase \in {"input", "done"}
  /\ \E id \in FrameIds, instruction \in MoveInstruction :
       /\ Moved(id, instruction)
       /\ frame' =
            [Begun EXCEPT !.thrusts[id] =
               IF instruction = "Accelerate"
               THEN Append(@, Thrust(state.player[id].player_object.angle))
               ELSE @]
  /\ UNCHANGED before

\* A shoot command before the frame's Gravity pass.
FrameShoot ==
  /\ ~panicked /\ steps < budget
  /\ frame.phase \in {"input", "done"}
  /\ \E id \in FrameIds : Shot(id)
  /\ frame' = Begun
  /\ UNCHANGED before

\* Gravity runs once, after the input.
FrameGravity ==
  /\ ~panicked /\ steps < budget
  /\ frame.phase \in {"input", "done"}
  /\ Pulled
  /\ frame' = [Begun EXCEPT !.phase = "pulled"]
  /\ UNCHANGED before

\* Integration runs once, after Gravity, and completes the frame.
FrameIntegrate ==
  /\ ~panicked /\ steps < budget
  /\ frame.phase = "pulled"
  /\ \E dt \in DeltaTimes : Integrated(dt)
  /\ frame' = [frame EXCEPT !.phase = "done"]
  /\ UNCHANGED before

NextFrame == FrameMove \/ FrameShoot \/ FrameGravity \/ FrameIntegrate

SpecFrame == InitFrame /\ [][NextFrame]_vars

\* --------------------------------------------------- reading the state

MissileCount(gs, id) == Len(gs.player[id].missiles)

\* The bodies of a game state: <<p, 0>> is player p's own object, <<p, m>>
\* with m >= 1 the m-th missile of its vector (missile id m - 1).
Bodies(gs) ==
  UNION { { <<p, m>> : m \in 0..MissileCount(gs, p) } : p \in DOMAIN gs.player }

Body(gs, b) ==
  IF b[2] = 0 THEN gs.player[b[1]].player_object
  ELSE gs.player[b[1]].missiles[b[2]]

\* The gateway calls that write to the game state.
WriteCalls ==
  { "set_player_orientation", "set_player_acceleration",
    "create_missile_for_player", "set_acceleration_for_player",
    "set_acceleration_for_missiles", "set_player_info", "set_missile_info" }

Writes(calls) == { i \in DOMAIN calls : calls[i] \in WriteCalls }

FiniteVec(d) == IsFinite(d[1]) /\ IsFinite(d[2])

ShootRan == last.op = "Shoot"

ShootAtCap == ShootRan /\ MissileCount(prev, last.id) >= missile_config.max

ShootUnderCap == ShootRan /\ MissileCount(prev, last.id) < missile_config.max

GravityRan == last.op = "Gravity"

IntegrateRan == last.op = "Integrate"

\* ------------------------------------------------------ Shoot: the cap

OtherMissilesKept ==
  \A p \in DOMAIN prev.player \ {last.id} :
    state.player[p].missiles = prev.player[p].missiles

\* C1: a Shoot for a player whose missile count is at or above the configured
\* maximum is a silent no-op: it performs no gateway write, and the missile
\* list of that player and of every other player is what it was before.
C1_ShootAtCapIsNoOp ==
  ShootAtCap =>
    /\ Writes(last.calls) = {}
    /\ DOMAIN state.player = DOMAIN prev.player
    /\ state.player[last.id].missiles = prev.player[last.id].missiles
    /\ OtherMissilesKept

\* A Shoot was refused for a player that already holds missiles.
C1_Witness ==
  /\ ShootAtCap
  /\ missile_config.max > 0
  /\ MissileCount(state, last.id) = missile_config.max

\* C2: a Shoot for a player whose missile count is strictly below the
\* maximum appends exactly one missile to that player's list (the count grows
\* by exactly 1, the missiles already there stay in place) through a single
\* gateway write, and no other player's list changes.
C2_ShootUnderCapAppendsOne ==
  ShootUnderCap =>
    LET old == prev.player[last.id].missiles
        new == state.player[last.id].missiles
    IN  /\ Len(new) = Len(old) + 1
        /\ SubSeq(new, 1, Len(old)) = old
        /\ Cardinality(Writes(last.calls)) = 1
        /\ \E i \in Writes(last.calls) : last.calls[i] = "create_missile_for_player"
        /\ OtherMissilesKept

\* A Shoot added a missile for a player that already had one, while another
\* player had missiles of its own.
C2_Witness ==
  /\ ShootUnderCap
  /\ MissileCount(prev, last.id) >= 1
  /\ MissileCount(state, last.id) = MissileCount(prev, last.id) + 1
  /\ \E p \in DOMAIN prev.player \ {last.id} : MissileCount(prev, p) >= 1

\* C3: every player's missile count is at most the configured maximum after
\* any sequence of Shoot, Move, Gravity and Integrate executions from the new
\* game state.
C3_MissileCapInvariant ==
  \A p \in DOMAIN state.player : MissileCount(state, p) <= missile_config.max

\* With cap 3, a player holding 3 missiles shot a 4th time and still has 3.
C3_Witness ==
  /\ missile_config.max = 3
  /\ ShootRan
  /\ MissileCount(prev, last.id) = 3
  /\ MissileCount(state, last.id) = 3

\* ------------------------------------------------- Shoot: the new missile

NewMissile == state.player[last.id].missiles[MissileCount(state, last.id)]

Shooter == prev.player[last.id].player_object

\* C4: the missile a Shoot creates has position = player position +
\* (initial_distance, 0) rotated by the player's orientation, velocity =
\* player velocity + (initial_speed, 0) rotated by the player's orientation,
\* orientation = angle of its own velocity and zero acceleration; a player at
\* the origin with orientation 0 and velocity (0,0), initial_distance 500 and
\* initial_speed 100 gives a missile at (500,0) with velocity (100,0) and
\* orientation 0.
C4_MissileSpawnPose ==
  ShootUnderCap =>
    LET launch ==
          Vec2Add(Vec2FromData(Shooter.velocity),
                  Vec2Rotate(Vec2New(missile_config.initial_speed, 0),
                             Shooter.angle))
        offset ==
          Vec2Rotate(Vec2New(missile_config.initial_distance, 0), Shooter.angle)
    IN  /\ NewMissile.position =
             Vec2ToData(Vec2Add(Vec2FromData(Shooter.position), offset))
        /\ NewMissile.velocity = Vec2ToData(launch)
        /\ NewMissile.angle = Vec2Angle(launch)
        /\ NewMissile.acceleration = <<0, 0>>
        /\ ( /\ Shooter.position = <<0, 0>>
             /\ Shooter.angle = 0
             /\ Shooter.velocity = <<0, 0>>
             /\ missile_config.initial_distance = 500 * One
             /\ missile_config.initial_speed = 100 * One )
           => /\ NewMissile.position = <<500 * One, 0>>
              /\ NewMissile.velocity = <<100 * One, 0>>
              /\ NewMissile.angle = 0

\* A moving, turned player shot a missile that does not face the way the
\* player does.
C4_Witness ==
  /\ ShootUnderCap
  /\ Shooter.velocity # <<0, 0>>
  /\ Shooter.angle # 0
  /\ NewMissile.angle # Shooter.angle
  /\ NewMissile.angle = Vec2Angle(Vec2FromData(NewMissile.velocity))

\* The scenario of the claim: distance 500, speed 100, player at rest at the
\* origin facing along x.
C4_ScenarioReached ==
  /\ ShootUnderCap
  /\ Shooter = MovingObjectDefault
  /\ missile_config.initial_distance = 500 * One
  /\ NewMissile.position = <<500 * One, 0>>

\* ---------------------------------------------------------- Integrate

\* C5: Integrate performs one explicit Euler step on every player and every
\* missile from the values before the step: new position = position +
\* velocity * dt with the old velocity, new velocity = velocity +
\* acceleration * dt with the acceleration before it is cleared; position
\* (1,0), velocity (1,1), acceleration (0,0), dt = 2 gives position (3,2)
\* and velocity (1,1).
C5_ExplicitEulerStep ==
  /\ IntegrateRan =>
       /\ Bodies(state) = Bodies(prev)
       /\ \A b \in Bodies(prev) :
            LET old == Body(prev, b)
                new == Body(state, b)
                dt  == last.dt
            IN  /\ new.position =
                     Vec2ToData(Vec2Add(Vec2FromData(old.position),
                                        Vec2Mul(Vec2FromData(old.velocity), dt)))
                /\ new.velocity =
                     Vec2ToData(Vec2Add(Vec2FromData(old.velocity),
                                        Vec2Mul(Vec2FromData(old.acceleration), dt)))
                /\ new.angle = old.angle
  /\ LET pva == integrate_pos_vel_and_acc(Vec2New(One, 0), Vec2New(One, One),
                                          Vec2Zero, 2 * One)
     IN  /\ pva[1] = Vec2New(3 * One, 2 * One)
         /\ pva[2] = Vec2New(One, One)

\* An Integrate with dt = 2 moved a body that had a velocity and an
\* acceleration, and changed its velocity.
C5_Witness ==
  /\ IntegrateRan
  /\ last.dt = 2 * One
  /\ \E b \in Bodies(prev) :
       /\ Body(prev, b).velocity # <<0, 0>>
       /\ Body(prev, b).acceleration # <<0, 0>>
       /\ Body(state, b).position # Body(prev, b).position
       /\ Body(state, b).velocity # Body(prev, b).velocity

\* C6: after Integrate, for any dt, the acceleration of every player and of
\* every missile is the zero vector, whatever it was before.
C6_AccelerationCleared ==
  IntegrateRan =>
    \A b \in Bodies(state) : Body(state, b).acceleration = <<0, 0>>

\* An Integrate ran on a player and a missile that both had an acceleration.
C6_Witness ==
  /\ IntegrateRan
  /\ \E b \in Bodies(prev) : b[2] = 0 /\ Body(prev, b).acceleration # <<0, 0>>
  /\ \E b \in Bodies(prev) : b[2] > 0 /\ Body(prev, b).acceleration # <<0, 0>>
  /\ \A b \in Bodies(state) : Body(state, b).acceleration = <<0, 0>>

IntegrateZeroRan == IntegrateRan /\ last.dt = 0

\* C7 as stated: Integrate with dt = 0 leaves the position and velocity of
\* every player and missile unchanged and sets every acceleration to zero.
C7_ZeroStepKeepsAll ==
  IntegrateZeroRan =>
    \A b \in Bodies(prev) :
      /\ Body(state, b).position = Body(prev, b).position
      /\ Body(state, b).velocity = Body(prev, b).velocity
      /\ Body(state, b).acceleration = <<0, 0>>

\* C7 amended: Integrate with dt = 0 sets every acceleration to zero and
\* leaves unchanged each position component whose velocity component is
\* finite and each velocity component whose acceleration component is finite;
\* a component whose increment is infinite or NaN becomes NaN (inf * 0).
C7_ZeroStepKeepsFinite ==
  IntegrateZeroRan =>
    \A b \in Bodies(prev) :
      LET old == Body(prev, b)
          new == Body(state, b)
      IN  /\ new.acceleration = <<0, 0>>
          /\ \A i \in 1..2 :
               /\ IF IsFinite(old.velocity[i])
                  THEN new.position[i] = old.position[i]
                  ELSE IsNaN(new.position[i])
               /\ IF IsFinite(old.acceleration[i])
                  THEN new.velocity[i] = old.velocity[i]
                  ELSE IsNaN(new.velocity[i])

\* An Integrate with dt = 0 ran on a moving body with a finite acceleration,
\* which it cleared, and on a body whose acceleration was not finite.
C7_Witness ==
  /\ IntegrateZeroRan
  /\ \E b \in Bodies(prev) :
       /\ Body(prev, b).acceleration # <<0, 0>>
       /\ FiniteVec(Body(prev, b).acceleration)
       /\ FiniteVec(Body(prev, b).velocity)
       /\ Body(state, b).acceleration = <<0, 0>>
       /\ Body(state, b).velocity = Body(prev, b).velocity
  /\ \E b \in Bodies(prev) : ~FiniteVec(Body(prev, b).acceleration)

\* ------------------------------------------------------------ Gravity

Stars(gs) == get_stars(Repo(gs))

\* The attraction of the stars on body b as it was before the pass.
Pull(gs, b) == StarsGravity(Stars(gs), Vec2FromData(Body(gs, b).position))

OneStarAtOrigin == prev.stars = <<StarData(<<0, 0>>, 10 * One)>>

\* C8: Gravity writes back, for every player and every missile, the old
\* acceleration plus the sum over the stars of G * mass / |r|^2 directed
\* from the body to the star (r = star position - body position, G = 1):
\* the prior acceleration is added to, not overwritten, and nothing else of
\* the body changes.  One star of mass 10 at (0,0) and a body at (2,0) with
\* zero prior acceleration give (-2.5, 0).
C8_GravityAddsToAcceleration ==
  GravityRan =>
    /\ Bodies(state) = Bodies(prev)
    /\ state.stars = prev.stars
    /\ \A b \in Bodies(prev) :
         LET old == Body(prev, b)
             new == Body(state, b)
         IN  /\ new.acceleration =
                  Vec2ToData(Vec2Add(Vec2FromData(old.acceleration), Pull(prev, b)))
             /\ new.position = old.position
             /\ new.velocity = old.velocity
             /\ new.angle = old.angle
             /\ ( /\ OneStarAtOrigin
                  /\ old.position = <<2 * One, 0>>
                  /\ old.acceleration = <<0, 0>> )
                => new.acceleration = <<-(5 * One) \div 2, 0>>
             /\ ( /\ OneStarAtOrigin
                  /\ FiniteVec(old.position)
                  /\ old.acceleration = <<0, 0>> )
                => \A i \in 1..2 :
                     \/ new.acceleration[i] = 0
                     \/ Sign(new.acceleration[i]) = Sign(0 - old.position[i])

\* A Gravity pass added the pull (-2.5, 0) of the star at the origin to the
\* acceleration (-2.5, 0) a body at (2,0) already had.
C8_Witness ==
  /\ GravityRan
  /\ OneStarAtOrigin
  /\ \E b \in Bodies(prev) :
       /\ Body(prev, b).position = <<2 * One, 0>>
       /\ Body(prev, b).acceleration = <<-(5 * One) \div 2, 0>>
       /\ Body(state, b).acceleration = <<-(5 * One), 0>>

\* The scenario of the claim: zero prior acceleration.
C8_ScenarioReached ==
  /\ GravityRan
  /\ OneStarAtOrigin
  /\ \E b \in Bodies(prev) :
       /\ Body(prev, b).position = <<2 * One, 0>>
       /\ Body(prev, b).acceleration = <<0, 0>>
       /\ Body(state, b).acceleration = <<-(5 * One) \div 2, 0>>

\* A body unlike any the game has produced, to stand in for another body.
Decoy ==
  [position |-> <<One, -(2 * One)>>, angle |-> One \div 2,
   velocity |-> <<One, One>>, acceleration |-> <<3 * One, -One>>]

\* The game states that agree with gs on the stars and on body b and differ
\* in the other bodies: every other body replaced by the decoy, and
\* moreover one more missile added to every player.
OthersReplaced(gs, b) ==
  [gs EXCEPT !.player =
     [p \in DOMAIN @ |->
        [player_object |-> IF b = <<p, 0>> THEN @[p].player_object ELSE Decoy,
         missiles |->
           [m \in 1..Len(@[p].missiles) |->
              IF b = <<p, m>> THEN @[p].missiles[m] ELSE Decoy]]]]

OthersAdded(gs, b) ==
  LET alt == OthersReplaced(gs, b)
  IN  [alt EXCEPT !.player =
         [p \in DOMAIN @ |-> [@[p] EXCEPT !.missiles = Append(@, Decoy)]]]

Alternatives(gs, b) == { OthersReplaced(gs, b), OthersAdded(gs, b) }

\* C9: the acceleration a Gravity pass writes for a body depends only on the
\* stars and on that body's own position and acceleration before the pass:
\* a pass over a state that agrees on the stars and on that body and differs
\* in every other player and missile, in any processing order, writes the
\* same acceleration for it.
C9_GravityIndependentOfOthers ==
  GravityRan =>
    \A b \in Bodies(prev) :
      \A alt \in Alternatives(prev, b) :
        \A order \in Orders(DOMAIN alt.player) :
          Body(GravityExecute(Repo(alt), order).state, b).acceleration
            = Body(state, b).acceleration

\* A Gravity pass ran on two players and a missile, each pulled by the stars
\* and each with another acceleration before the pass.
C9_Witness ==
  /\ GravityRan
  /\ Cardinality(Bodies(prev)) >= 3
  /\ \E b \in Bodies(prev), c \in Bodies(prev) :
       /\ b # c
       /\ Body(prev, b).acceleration # Body(prev, c).acceleration
       /\ Body(state, b).acceleration # Body(prev, b).acceleration
       /\ Body(state, c).acceleration # Body(prev, c).acceleration
       /\ Body(state, b).acceleration # Body(state, c).acceleration

\* The pairs of a body and a star at exactly the body's position.
Coincident ==
  { bs \in Bodies(prev) \X DOMAIN prev.stars :
      Body(prev, bs[1]).position = prev.stars[bs[2]].pos }

ContributionOf(bs) ==
  gravity(Stars(prev)[bs[2]].pos, Stars(prev)[bs[2]].mass,
          Vec2FromData(Body(prev, bs[1]).position))

\* C10 as stated: the contribution of a star to a body at exactly the star's
\* position is not a defined vector value.
C10_CoincidentUndefined ==
  GravityRan =>
    \A bs \in Coincident : ~FiniteVec(Vec2ToData(ContributionOf(bs)))

\* C10 amended: for a body at exactly a star's position the squared length
\* is zero and the direction r.norm() is (NaN, NaN), but the division by the
\* squared length is guarded: the star's contribution is the zero vector and
\* the body's new acceleration is its old one plus the pull of the other
\* stars.
C10_CoincidentContributesZero ==
  GravityRan =>
    \A bs \in Coincident :
      LET old == Body(prev, bs[1])
          new == Body(state, bs[1])
          stars == Stars(prev)
          r == Vec2Sub(stars[bs[2]].pos, Vec2FromData(old.position))
          others == SelectSeq([i \in DOMAIN stars |-> <<i, stars[i]>>],
                              LAMBDA e : e[1] # bs[2])
      IN  /\ Vec2Len2(r) = 0
          /\ IsNaN(Vec2Norm(r).x) /\ IsNaN(Vec2Norm(r).y)
          /\ ContributionOf(bs) = Vec2Zero
          /\ new.acceleration =
               Vec2ToData(Vec2Add(
                 Vec2FromData(old.acceleration),
                 Vec2Sum([i \in 1..Len(others) |->
                            gravity(others[i][2].pos, others[i][2].mass,
                                    Vec2FromData(old.position))])))

\* A Gravity pass ran on a body at the position of one of two stars, and the
\* body's acceleration stayed finite.
C10_Witness ==
  /\ GravityRan
  /\ Len(prev.stars) = 2
  /\ \E bs \in Coincident :
       /\ FiniteVec(Body(state, bs[1]).acceleration)
       /\ Body(state, bs[1]).acceleration # Body(prev, bs[1]).acceleration

\* ------------------------------------------------------------- Movement

MoveRan == last.op = "Move"

RotateRan == MoveRan /\ last.instruction \in {"RotateLeft", "RotateRight"}

AccelerateRan == MoveRan /\ last.instruction = "Accelerate"

\* The addressed player's object in a game state.
Mover(gs) == gs.player[last.id].player_object

Reads(calls) == DOMAIN calls \ Writes(calls)

\* C11: RotateLeft sets the addressed player's orientation to
\* trim_angle(orientation + angle_per_frame), RotateRight to
\* trim_angle(orientation - angle_per_frame); from orientation 0 a RotateLeft
\* gives the configured increment itself.
C11_RotateSetsTrimmedSum ==
  /\ (MoveRan /\ last.instruction = "RotateLeft") =>
       /\ Mover(state).angle =
            trim_angle(FAdd(Mover(prev).angle, move_config.angle_per_frame))
       /\ Mover(prev).angle = 0 => Mover(state).angle = move_config.angle_per_frame
  /\ (MoveRan /\ last.instruction = "RotateRight") =>
       Mover(state).angle =
         trim_angle(FSub(Mover(prev).angle, move_config.angle_per_frame))

\* A RotateRight took an orientation smaller than the increment below 0 and
\* the trimmed result is in the upper half of the circle.
C11_Witness ==
  /\ MoveRan
  /\ last.instruction = "RotateRight"
  /\ Mover(prev).angle < move_config.angle_per_frame
  /\ Mover(state).angle > PI
  /\ Mover(state).angle <= TWO_PI

\* C13: Accelerate writes the existing acceleration plus the thrust of the
\* configured magnitude along the player's orientation; it accumulates, so a
\* second Accelerate with orientation 0 doubles the thrust.
C13_AccelerateAccumulates ==
  AccelerateRan =>
    LET thrust == Vec2Rotate(Vec2New(move_config.acceleration, 0), Mover(prev).angle)
    IN  /\ Mover(state).acceleration =
             Vec2ToData(Vec2Add(thrust, Vec2FromData(Mover(prev).acceleration)))
        /\ Mover(prev).angle = 0 =>
             Mover(state).acceleration =
               <<FAdd(Mover(prev).acceleration[1], move_config.acceleration),
                 Mover(prev).acceleration[2]>>

\* The second of two Accelerate commands: one thrust was there, two are now.
C13_Witness ==
  /\ AccelerateRan
  /\ Mover(prev).angle = 0
  /\ Mover(prev).acceleration = <<move_config.acceleration, 0>>
  /\ Mover(state).acceleration = <<2 * move_config.acceleration, 0>>

\* C14 as stated: every Move command makes exactly one read call and exactly
\* one write call on the gateway.
C14_OneReadOneWrite ==
  MoveRan =>
    /\ Cardinality(Reads(last.calls)) = 1
    /\ Cardinality(Writes(last.calls)) = 1

\* C14 amended: RotateLeft and RotateRight make one read (the orientation)
\* and then one write (the orientation); Accelerate makes two reads (the
\* orientation, then the acceleration) and then one write (the acceleration).
C14_MoveGatewayCalls ==
  /\ RotateRan =>
       last.calls = <<"get_player_orientation", "set_player_orientation">>
  /\ AccelerateRan =>
       last.calls = <<"get_player_orientation", "get_player_acceleration",
                      "set_player_acceleration">>

\* An Accelerate ran: two reads, one write.
C14_Witness ==
  /\ AccelerateRan
  /\ Cardinality(Reads(last.calls)) = 2
  /\ Cardinality(Writes(last.calls)) = 1

\* C15: a Move command changes only its target field of the addressed
\* player: a rotation leaves that player's acceleration, position and
\* velocity as they were, Accelerate leaves its orientation, position and
\* velocity, and every other player, every missile and every star is
\* unchanged.
C15_MoveTouchesOneField ==
  MoveRan =>
    /\ state.stars = prev.stars
    /\ DOMAIN state.player = DOMAIN prev.player
    /\ \A p \in DOMAIN prev.player \ {last.id} : state.player[p] = prev.player[p]
    /\ state.player[last.id].missiles = prev.player[last.id].missiles
    /\ Mover(state).position = Mover(prev).position
    /\ Mover(state).velocity = Mover(prev).velocity
    /\ RotateRan => Mover(state).acceleration = Mover(prev).acceleration
    /\ AccelerateRan => Mover(state).angle = Mover(prev).angle

\* An Accelerate changed the acceleration of a turned player while the other
\* player had another acceleration and a missile was in flight.
C15_Witness ==
  /\ AccelerateRan
  /\ Mover(prev).angle # 0
  /\ Mover(state).acceleration # Mover(prev).acceleration
  /\ \E p \in DOMAIN prev.player \ {last.id} :
       /\ prev.player[p].player_object.acceleration # Mover(prev).acceleration
       /\ prev.player[p].player_object.acceleration # Mover(state).acceleration
  /\ \E p \in DOMAIN prev.player : MissileCount(prev, p) > 0

\* ------------------------------------------------- the missile vectors

\* Missile new is missile old after the use case executed last.
SameMissileLater(old, new) ==
  CASE last.op \in {"new", "Move", "Shoot"} -> new = old
    [] last.op = "Gravity" ->
         /\ new.position = old.position
         /\ new.velocity = old.velocity
         /\ new.angle = old.angle
    [] last.op = "Integrate" ->
         /\ new.angle = old.angle
         /\ new.position =
              Vec2ToData(integrate(Vec2FromData(old.position),
                                   Vec2FromData(old.velocity), last.dt))

\* C18: missiles are appended and never removed: across every use case
\* each player's missile count does not decrease, grows by at most one, a
\* missile stays at its index in its owner's vector, and a new missile is
\* added at the end.
C18_MissilesOnlyAppended ==
  /\ DOMAIN state.player = DOMAIN prev.player
  /\ \A p \in DOMAIN prev.player :
       LET old == prev.player[p].missiles
           new == state.player[p].missiles
       IN  /\ Len(new) >= Len(old)
           /\ Len(new) <= Len(old) + 1
           /\ Len(new) > Len(old) => (ShootRan /\ last.id = p)
           /\ \A m \in 1..Len(old) : SameMissileLater(old[m], new[m])

\* A Shoot added a missile behind a missile that differs from it, and the
\* older missile kept its index.
C18_Witness ==
  /\ ShootRan
  /\ MissileCount(prev, last.id) = 1
  /\ MissileCount(state, last.id) = 2
  /\ LET ms == state.player[last.id].missiles
     IN  /\ ms[1] # ms[2]
         /\ ms[1] = prev.player[last.id].missiles[1]
         /\ ms[2] = NewMissile

\* --------------------------------------------------------- trim_angle

\* C20 as stated: for every finite angle theta, trim_angle(theta) is >= 0
\* and strictly less than 2*pi.
C20_TrimHalfOpen ==
  (trim.applied /\ IsFinite(trim.theta)) =>
    (FLt(trim.result, TWO_PI) /\ ~FLt(trim.result, 0) /\ ~IsNaN(trim.result))

\* C20: for every finite angle theta, trim_angle(theta) lies in the closed
\* interval [0, 2*pi]; it is TWO_PI itself only for a negative theta of less
\* than half a unit in the last place of TWO_PI, for which theta + TWO_PI
\* rounds to TWO_PI. For a NaN or infinite theta it is NaN.
C20_TrimClosedInterval ==
  trim.applied =>
    IF IsFinite(trim.theta)
    THEN /\ IsFinite(trim.result)
         /\ 0 <= trim.result /\ trim.result <= TWO_PI
         /\ trim.result = TWO_PI =>
              (trim.theta < 0 /\ 2 * (-trim.theta) < Ulp(TWO_PI))
    ELSE IsNaN(trim.result)

\* trim_angle returned TWO_PI for a negative angle.
C20_Witness ==
  /\ trim.applied
  /\ trim.theta < 0 /\ IsFinite(trim.theta)
  /\ trim.result = TWO_PI

\* An angle more than two turns below 0 and one more than two turns above
\* 2*pi came back inside the interval.
C20_TurnsBelowReached ==
  trim.applied /\ IsFinite(trim.theta) /\ trim.theta < -2 * TWO_PI
    /\ 0 < trim.result /\ trim.result < TWO_PI

C20_TurnsAboveReached ==
  trim.applied /\ IsFinite(trim.theta) /\ trim.theta > 3 * TWO_PI
    /\ 0 < trim.result /\ trim.result < TWO_PI

\* ------------------------------------------------- left, then right

\* The last two use cases were a RotateLeft and then a RotateRight of the
\* same player.
LeftThenRight ==
  /\ before.last.op = "Move" /\ before.last.instruction = "RotateLeft"
  /\ RotateRan /\ last.instruction = "RotateRight"
  /\ last.id = before.last.id

\* The orientation the RotateLeft started from and the one the RotateRight
\* left.
Original == before.prev.player[last.id].player_object.angle

Returned == Mover(state).angle

\* The distance of two angles of [0, 2*pi] around the circle.
CyclicDistance(a, b) ==
  IF Abs(a - b) <= TWO_PI - Abs(a - b) THEN Abs(a - b) ELSE TWO_PI - Abs(a - b)

\* C12 as stated: RotateLeft followed by RotateRight of the same player
\* returns the player's orientation to its original value.
C12_LeftRightRestores == LeftThenRight => Returned = Original

\* C12: RotateLeft followed by RotateRight of the same player returns the
\* orientation to the original one up to f32 rounding: the two differ, around
\* the circle, by at most two units in the last place of 2*pi + |increment|;
\* they are equal when original + increment is computed without rounding and
\* lies in [0, 2*pi) and the original is below 2*pi.
C12_LeftRightRestoresRounded ==
  LeftThenRight =>
    LET a == move_config.angle_per_frame
    IN  /\ CyclicDistance(Returned, Original) <= 2 * Ulp(TWO_PI + Abs(a))
        /\ ( /\ FAdd(Original, a) = Original + a
             /\ 0 <= Original + a /\ Original + a < TWO_PI
             /\ Original < TWO_PI ) => Returned = Original

\* A RotateLeft whose sum was rounded, then a RotateRight that ended next to
\* the original orientation, not on it.
C12_Witness ==
  /\ LeftThenRight
  /\ FAdd(Original, move_config.angle_per_frame)
       # Original + move_config.angle_per_frame
  /\ Returned # Original

\* A RotateLeft that wrapped past 2*pi, then a RotateRight that wrapped
\* below 0.
C12_WrapReached ==
  /\ LeftThenRight
  /\ Original + move_config.angle_per_frame > TWO_PI
  /\ Mover(prev).angle < move_config.angle_per_frame

\* The pair returned exactly to an original orientation other than 0.
C12_ExactReached ==
  /\ LeftThenRight
  /\ Original > 0
  /\ FAdd(Original, move_config.angle_per_frame)
       = Original + move_config.angle_per_frame
  /\ Returned = Original

\* ------------------------------------------------ unknown addresses

GatewayCalled == last.op \in PlayerCalls \cup PlayerBulkCalls \cup MissileBulkCalls

\* The call executed last addresses missiles, not players.
MissilesAddressed == last.op \in MissileBulkCalls

\* Entry i of the last call names a player the store did not know, or a
\* missile index outside that player's vector.
Unknown(i) ==
  LET d == last.data[i]
  IN  \/ d[1] \notin DOMAIN prev.player
      \/ MissilesAddressed /\ d[2] >= MissileCount(prev, d[1])

\* The object entry i of the last call addresses, in a game state.
Target(gs, i) ==
  LET d == last.data[i]
  IN  IF MissilesAddressed THEN gs.player[d[1]].missiles[d[2] + 1]
      ELSE gs.player[d[1]].player_object

\* Entries i and j of the last call address the same object.
SameTarget(i, j) ==
  /\ last.data[i][1] = last.data[j][1]
  /\ MissilesAddressed => last.data[i][2] = last.data[j][2]

\* The last call is one of the setters that write position, velocity and
\* acceleration.
InfoSet == last.op \in {"set_player_info", "set_missile_info"}

\* The acceleration the setter executed last was handed.
WrittenAcceleration == IF InfoSet THEN InfoOf(Written)[3] ELSE Written

\* C19: a gateway call for a player id the store does not know, or for a
\* missile index outside the player's vector, panics, and only such a call
\* does; the panicking call returns nothing and is not made again: an entry
\* behind the first unknown one is never applied, while the entries before
\* it were, and after the panic nothing further is executed.
C19_UnknownAddressPanics ==
  /\ panicked => GatewayCalled
  /\ GatewayCalled =>
       /\ panicked <=> \E i \in DOMAIN last.data : Unknown(i)
       /\ last.calls = <<last.op>>
       /\ panicked =>
            \E bad \in DOMAIN last.data :
              /\ Unknown(bad)
              /\ \A i \in 1..(bad - 1) : ~Unknown(i)
              /\ \A i \in 1..(bad - 1) : Target(state, i).acceleration = WrittenAcceleration
              /\ \A i \in (bad + 1)..Len(last.data) :
                   (~Unknown(i) /\ \A j \in 1..(bad - 1) : ~SameTarget(i, j))
                     => Target(state, i) = Target(prev, i)
              /\ bad = 1 => state = prev

\* A bulk setter for missiles panicked at its second entry, a missile index
\* outside the vector of a known player, after applying its first entry.
C19_Witness ==
  /\ panicked
  /\ MissilesAddressed
  /\ Len(last.data) = 2
  /\ ~Unknown(1) /\ Unknown(2)
  /\ last.data[2][1] \in DOMAIN prev.player
  /\ state # prev

\* A call for one player panicked on the id the store does not know.
C19_UnknownPlayerReached ==
  /\ panicked
  /\ last.op \in PlayerCalls
  /\ last.data[1][1] \notin DOMAIN prev.player
  /\ state = prev

\* ------------------------------------------------------- whole frames

\* The frame is complete: its input, its Gravity pass and its Integration
\* pass have run.
FrameDone == frame.phase = "done"

\* The acceleration left by a frame's Accelerate commands: each thrust is
\* added to what was there.
RECURSIVE Thrusted(_, _)
Thrusted(acc, thrusts) ==
  IF thrusts = <<>> THEN acc
  ELSE Thrusted(Vec2Add(thrusts[1], acc), Tail(thrusts))

\* The acceleration body b of the frame has when the input is over: a
\* player's thrusts on top of what the frame started with, zero for a
\* missile.
InputAcceleration(b) ==
  IF b[2] = 0
  THEN Thrusted(Vec2FromData(frame.start.player[b[1]].player_object.acceleration),
                frame.thrusts[b[1]])
  ELSE Vec2Zero

\* C16: in a frame of Accelerate commands, then Gravity once, then
\* Integrate(dt) once, every player's velocity after the frame is its
\* velocity at the start of the frame plus (the acceleration at the start
\* plus the frame's thrusts plus the attraction of the stars) times dt, and
\* its acceleration is zero: nothing is carried into the next frame.
C16_FrameVelocity ==
  FrameDone =>
    \A p \in DOMAIN frame.start.player :
      LET old == frame.start.player[p].player_object
          new == state.player[p].player_object
          acc == Vec2Add(InputAcceleration(<<p, 0>>), Pull(frame.start, <<p, 0>>))
      IN  /\ new.velocity =
               Vec2ToData(Vec2Add(Vec2FromData(old.velocity), Vec2Mul(acc, last.dt)))
          /\ new.acceleration = <<0, 0>>

\* A second frame with a thrust and a pull of the stars, both not zero and
\* not along each other, integrated over dt = 2; the first frame had a
\* thrust as well.
C16_Witness ==
  /\ FrameDone
  /\ frame.number = 2
  /\ last.dt = 2 * One
  /\ frame.start.player[1].player_object.velocity # <<0, 0>>
  /\ frame.thrusts[1] # <<>>
  /\ LET pull == Pull(frame.start, <<1, 0>>)
         thrust == frame.thrusts[1][1]
     IN  /\ FiniteVec(Vec2ToData(pull)) /\ pull # Vec2Zero
         /\ thrust.x * pull.y # thrust.y * pull.x
  /\ state.player[1].player_object.velocity
       # frame.start.player[1].player_object.velocity

\* C17: in every frame the acceleration the Integration pass consumes is,
\* for every player and missile, the acceleration the input left plus the
\* attraction of the stars exactly once, and the pass clears it.
C17_OneGravityPassConsumed ==
  FrameDone =>
    /\ Bodies(state) = Bodies(prev)
    /\ \A b \in Bodies(prev) :
         /\ Body(prev, b).acceleration =
              Vec2ToData(Vec2Add(InputAcceleration(b), Pull(prev, b)))
         /\ Body(state, b).velocity =
              Vec2ToData(Vec2Add(Vec2FromData(Body(prev, b).velocity),
                                 Vec2Mul(Vec2FromData(Body(prev, b).acceleration),
                                         last.dt)))
         /\ Body(state, b).acceleration = <<0, 0>>

\* A frame whose Integration pass consumed a player's thrust and, for a
\* missile, the attraction of the stars, once and not zero.
C17_Witness ==
  /\ FrameDone
  /\ \E b \in Bodies(prev) :
       /\ b[2] > 0
       /\ Pull(prev, b) # Vec2Zero /\ FiniteVec(Vec2ToData(Pull(prev, b)))
       /\ Body(prev, b).acceleration = Vec2ToData(Pull(prev, b))
       /\ Body(state, b).velocity # Body(prev, b).velocity
  /\ \E b \in Bodies(prev) :
       /\ b[2] = 0
       /\ frame.thrusts[b[1]] # <<>>
       /\ Body(prev, b).acceleration # <<0, 0>>

\* ------------------------------------------ trim_angle, applied again

\* trim_angle ran on a finite angle and then on what it returned.
TrimmedTwice == trim.twice /\ IsFinite(trim.theta)

\* C21 as stated: for every finite theta, trim_angle(trim_angle(theta)) =
\* trim_angle(theta).
C21_TrimIdempotent == TrimmedTwice => trim.again = trim.result

\* C21: trimming a trimmed angle returns it unchanged whenever the trimmed
\* angle is below TWO_PI, which it is for every finite theta except the
\* negative ones of less than half a unit in the last place of TWO_PI; for
\* those trim_angle(theta) is TWO_PI and trimming it again gives 0.
C21_TrimIdempotentBelowTwoPi ==
  TrimmedTwice =>
    /\ trim.result < TWO_PI => trim.again = trim.result
    /\ trim.result = TWO_PI => trim.again = 0
    /\ trim.result >= TWO_PI =>
         (trim.result = TWO_PI /\ trim.theta < 0 /\ 2 * (-trim.theta) < Ulp(TWO_PI))

\* A negative angle was trimmed to TWO_PI, and TWO_PI to 0.
C21_Witness ==
  /\ TrimmedTwice
  /\ trim.theta < 0
  /\ trim.result = TWO_PI
  /\ trim.again = 0

\* A negative angle more than a turn below 0 was trimmed into the circle and
\* trimming it again returned it.
C21_UnchangedReached ==
  /\ TrimmedTwice
  /\ trim.theta < -TWO_PI
  /\ 0 < trim.result /\ trim.result < TWO_PI
  /\ trim.again = trim.result

\* trim_angle ran on a finite angle and on the angle plus k turns.
TrimmedTurned == trim.applied /\ trim.k # 0 /\ IsFinite(trim.theta)

\* C22 as stated: trim_angle(theta + k * 2*pi) = trim_angle(theta) for every
\* finite theta and every integer k.
C22_TrimPeriodic == TrimmedTurned => trim.turned = trim.result

\* C22: trim_angle(theta + k * TWO_PI) equals trim_angle(theta) up to the
\* f32 rounding of k * TWO_PI and of the sum: the two differ, around the
\* circle, by at most two units in the last place of |theta| + |k| * 2*pi;
\* they are equal when k * TWO_PI and the sum are computed without rounding
\* and trim_angle(theta) is below TWO_PI, as in trim(2*pi + 0.5) = 0.5 and
\* trim(-2 * 2*pi - 0.5) = 2*pi - 0.5.
C22_TrimPeriodicRounded ==
  /\ TrimmedTurned =>
       LET turns == FMul(trim.k * One, TWO_PI)
       IN  /\ IsFinite(trim.turned)
           /\ CyclicDistance(trim.turned, trim.result)
                <= 2 * Ulp(Abs(trim.theta) + Abs(trim.k) * TWO_PI)
           /\ ( /\ turns = trim.k * TWO_PI
                /\ FAdd(trim.theta, turns) = trim.theta + turns
                /\ trim.result < TWO_PI ) => trim.turned = trim.result
  /\ trim_angle(FAdd(TWO_PI, One \div 2)) = One \div 2
  /\ trim_angle(FSub(FMul(-2 * One, TWO_PI), One \div 2))
       = FSub(TWO_PI, One \div 2)

\* An angle plus one turn was rounded, and its trimmed value is next to the
\* trimmed angle, not on it.
C22_Witness ==
  /\ TrimmedTurned
  /\ trim.k = 1
  /\ FAdd(trim.theta, TWO_PI) # trim.theta + TWO_PI
  /\ trim.turned # trim.result

\* -0.5 less two turns was trimmed to 2*pi - 0.5, as -0.5 is.
C22_ExampleReached ==
  /\ TrimmedTurned
  /\ trim.theta = -(One \div 2) /\ trim.k = -2
  /\ trim.turned = FSub(TWO_PI, One \div 2)
  /\ trim.turned = trim.result

\* ----------------------------------------------- stored orientations

\* C24 as stated: every player's and every missile's stored orientation is
\* >= 0 and strictly less than 2*pi.
C24_OrientationHalfOpen ==
  \A b \in Bodies(state) :
    /\ ~IsNaN(Body(state, b).angle)
    /\ 0 <= Body(state, b).angle /\ Body(state, b).angle < TWO_PI

\* C24: every player's stored orientation lies in the closed interval
\* [0, 2*pi], and so does every missile's stored orientation unless it is
\* NaN; the value TWO_PI itself is stored when trim_angle rounds a small
\* negative angle up to it.
C24_OrientationClosedInterval ==
  /\ \A p \in DOMAIN state.player :
       LET angle == state.player[p].player_object.angle
       IN  IsFinite(angle) /\ 0 <= angle /\ angle <= TWO_PI
  /\ \A b \in Bodies(state) :
       LET angle == Body(state, b).angle
       IN  IsNaN(angle) \/ (IsFinite(angle) /\ 0 <= angle /\ angle <= TWO_PI)

\* A Shoot stored a missile whose orientation is TWO_PI: its velocity points
\* just below the x axis.
C24_Witness ==
  /\ ShootRan
  /\ MissileCount(state, last.id) = MissileCount(prev, last.id) + 1
  /\ NewMissile.angle = TWO_PI
  /\ NewMissile.velocity[2] < 0

\* A player that turned right from 0 into the lower half of the circle
\* holds a missile.
C24_TurnedReached ==
  /\ \E p \in DOMAIN state.player :
       /\ state.player[p].player_object.angle > PI
       /\ state.player[p].player_object.angle < TWO_PI
       /\ state.player[p].missiles # <<>>

\* --------------------------------------------------- dividing a vector

\* C23: a vector divided by the scalar zero is the zero vector, whatever its
\* components (NaN and the infinities included); divided by a scalar s that
\* is not zero it is the vector times the f32 reciprocal of s, component by
\* component: half the vector for s = 2, NaN components for a NaN s.
C23_DivisionByScalar ==
  quotient.applied =>
    LET v == quotient.v
        s == quotient.s
        r == quotient.result
    IN  /\ s = 0 => r = [x |-> 0, y |-> 0]
        /\ s # 0 => r = [x |-> FMul(v.x, FDiv(One, s)), y |-> FMul(v.y, FDiv(One, s))]
        /\ (s = 2 * One /\ v.x = 3 * One) => r.x = One + One \div 2
        /\ IsNaN(s) => (IsNaN(r.x) /\ IsNaN(r.y))

\* A vector with a NaN and an infinite component was divided by zero and
\* the result is the zero vector.
C23_Witness ==
  /\ quotient.applied
  /\ quotient.s = 0
  /\ IsNaN(quotient.v.x) /\ IsInf(quotient.v.y)
  /\ quotient.result = [x |-> 0, y |-> 0]

\* (3, -2) was divided by 2 and the result is (1.5, -1).
C23_HalvedReached ==
  /\ quotient.applied
  /\ quotient.s = 2 * One
  /\ quotient.v = [x |-> 3 * One, y |-> -2 * One]
  /\ quotient.result = [x |-> One + One \div 2, y |-> -One]

\* ------------------------------------------------- the stars after setup

\* C25: no Movement, Shooting, Gravity or Integration execution changes the
\* stars: their number, and the position and the mass of each, are after
\* every execution what they were before it.
C25_StarsImmutable ==
  /\ Len(state.stars) = Len(prev.stars)
  /\ \A i \in DOMAIN prev.stars :
       /\ state.stars[i].pos = prev.stars[i].pos
       /\ state.stars[i].mass = prev.stars[i].mass

\* A Gravity pass over two stars changed an acceleration and left both stars
\* as they were.
C25_Witness ==
  /\ GravityRan
  /\ Len(prev.stars) = 2
  /\ state.stars = prev.stars
  /\ \E b \in Bodies(prev) :
       Body(state, b).acceleration # Body(prev, b).acceleration

\* An Integration pass moved a body of a game with a star.
C25_IntegratedReached ==
  /\ IntegrateRan
  /\ prev.stars # <<>>
  /\ state.stars = prev.stars
  /\ \E b \in Bodies(prev) : Body(state, b).position # Body(prev, b).position

\* ------------------------------------------- Gravity: what a pass leaves

\* C28: a Gravity pass changes nothing except accelerations: the players and
\* each player's missile count are the same after the pass as before it, and
\* so are the position, the velocity and the orientation of every player and
\* missile; in a game without stars every acceleration is the same as well.
C28_GravityWritesAccelerationsOnly ==
  GravityRan =>
    /\ DOMAIN state.player = DOMAIN prev.player
    /\ \A p \in DOMAIN prev.player : MissileCount(state, p) = MissileCount(prev, p)
    /\ \A b \in Bodies(prev) :
         /\ Body(state, b).position = Body(prev, b).position
         /\ Body(state, b).velocity = Body(prev, b).velocity
         /\ Body(state, b).angle = Body(prev, b).angle
         /\ prev.stars = <<>> => Body(state, b).acceleration = Body(prev, b).acceleration

\* A Gravity pass in a game with stars changed the acceleration of a player
\* that has turned and of a moving missile, and nothing else of them.
C28_Witness ==
  /\ GravityRan
  /\ prev.stars # <<>>
  /\ \E p \in DOMAIN prev.player :
       /\ MissileCount(prev, p) > 0
       /\ prev.player[p].player_object.angle # 0
       /\ prev.player[p].missiles[1].velocity # <<0, 0>>
       /\ \A b \in { <<p, 0>>, <<p, 1>> } :
            /\ Body(state, b).acceleration # Body(prev, b).acceleration
            /\ [Body(state, b) EXCEPT !.acceleration = Body(prev, b).acceleration]
                 = Body(prev, b)

\* A Gravity pass in a game without stars left the acceleration a player had
\* set and the missile of that player as they were.
C28_NoStarsReached ==
  /\ GravityRan
  /\ prev.stars = <<>>
  /\ \E p \in DOMAIN prev.player :
       /\ MissileCount(prev, p) > 0
       /\ prev.player[p].player_object.acceleration # <<0, 0>>
       /\ state.player[p] = prev.player[p]

\* --------------------------------------------- a missile's orientation

\* The missiles a game state holds, as bodies.
Missiles(gs) == { b \in Bodies(gs) : b[2] >= 1 }

\* C29: the orientation of a missile is fixed when it is created: after every
\* Movement, Shoot, Gravity or Integration execution each missile that existed
\* before it has the orientation it had before.
C29_MissileOrientationFixed ==
  \A b \in Missiles(prev) :
    /\ b \in Missiles(state)
    /\ Body(state, b).angle = Body(prev, b).angle

\* An Integration pass reversed the velocity of a missile; the missile still
\* has the orientation it was launched with, which is no longer the
\* direction of its velocity.
C29_Witness ==
  /\ IntegrateRan
  /\ \E b \in Missiles(prev) :
       /\ FiniteVec(Body(state, b).velocity)
       /\ Body(state, b).velocity # Body(prev, b).velocity
       /\ Body(state, b).angle = Body(prev, b).angle
       /\ Body(prev, b).angle = Vec2Angle(Vec2FromData(Body(prev, b).velocity))
       /\ Body(state, b).angle # Vec2Angle(Vec2FromData(Body(state, b).velocity))

\* ------------------------------------------------- Shoot: the cap, later

\* C30: the cap is final. The missile list of a player never gets shorter,
\* and once it holds the configured maximum it keeps its length through
\* every later Movement, Shoot, Gravity or Integration execution; a Shoot of
\* such a player leaves the whole game state as it was. So a player never
\* holds, and never has created, more missiles than the maximum.
C30_CapIsFinal ==
  \A p \in DOMAIN prev.player :
    /\ MissileCount(state, p) >= MissileCount(prev, p)
    /\ MissileCount(state, p) <= missile_config.max
    /\ MissileCount(prev, p) >= missile_config.max =>
         /\ MissileCount(state, p) = MissileCount(prev, p)
         /\ (ShootRan /\ last.id = p) => state = prev

\* A player at the cap shot again after a Gravity pass had pulled at its
\* missiles, and the game state is what it was.
C30_Witness ==
  /\ ShootAtCap
  /\ missile_config.max >= 1
  /\ state = prev
  /\ \E m \in 1..MissileCount(prev, last.id) :
       LET acc == prev.player[last.id].missiles[m].acceleration
       IN  FiniteVec(acc) /\ acc # <<0, 0>>

\* A player at the cap shot again after an Integration pass had carried its
\* missile from its launch position, 2 ahead of the player, to 4 ahead.
C30_IntegratedReached ==
  /\ ShootAtCap
  /\ state = prev
  /\ LET shooter == prev.player[last.id]
     IN  /\ shooter.player_object.angle = 0
         /\ shooter.player_object.velocity = <<0, 0>>
         /\ MissileCount(prev, last.id) >= 1
         /\ shooter.missiles[1].velocity = <<One, 0>>
         /\ shooter.missiles[1].position =
              <<FAdd(shooter.player_object.position[1], 4 * One),
                shooter.player_object.position[2]>>

\* ------------------------------------------------- the bulk setters

\* The last call is a bulk setter.
BulkCalled == last.op \in PlayerBulkCalls \cup MissileBulkCalls

\* The bodies the data of the last call lists.
Listed ==
  { IF MissilesAddressed THEN <<last.data[i][1], last.data[i][2] + 1>>
    ELSE <<last.data[i][1], 0>> : i \in DOMAIN last.data }

\* C26: a bulk setter updates exactly the listed entries. After
\* set_acceleration_for_player, set_acceleration_for_missiles, set_player_info
\* or set_missile_info the stars, the players and the missile counts are what
\* they were; every player object and missile the data does not list is
\* unchanged; a listed one keeps its orientation and, under the acceleration
\* setters, its position and velocity; and when the call returned, the
\* fields the setter names hold the values handed over.
C26_BulkSettersWriteListedOnly ==
  BulkCalled =>
    /\ state.stars = prev.stars
    /\ Bodies(state) = Bodies(prev)
    /\ \A b \in Bodies(prev) \ Listed : Body(state, b) = Body(prev, b)
    /\ \A b \in Bodies(prev) \cap Listed :
         /\ Body(state, b).angle = Body(prev, b).angle
         /\ ~InfoSet =>
              /\ Body(state, b).position = Body(prev, b).position
              /\ Body(state, b).velocity = Body(prev, b).velocity
         /\ ~panicked =>
              /\ Body(state, b).acceleration = WrittenAcceleration
              /\ InfoSet =>
                   /\ Body(state, b).position = InfoOf(Written)[1]
                   /\ Body(state, b).velocity = InfoOf(Written)[2]

\* set_missile_info for the second missile of a player wrote its position,
\* velocity and acceleration and left its orientation, the first missile
\* of the player and the player object as they were.
C26_Witness ==
  /\ last.op = "set_missile_info"
  /\ ~panicked
  /\ \E p \in DOMAIN prev.player :
       /\ Listed = { <<p, 2>> }
       /\ Body(prev, <<p, 2>>).angle # 0
       /\ Body(state, <<p, 2>>) =
            [position |-> InfoOf(Written)[1], angle |-> Body(prev, <<p, 2>>).angle,
             velocity |-> InfoOf(Written)[2], acceleration |-> InfoOf(Written)[3]]
       /\ Body(state, <<p, 2>>) # Body(prev, <<p, 2>>)
       /\ Body(state, <<p, 1>>) = Body(prev, <<p, 1>>)
       /\ Body(state, <<p, 0>>) = Body(prev, <<p, 0>>)

\* set_acceleration_for_player for both players wrote the acceleration of
\* both and nothing of a missile.
C26_BothPlayersReached ==
  /\ last.op = "set_acceleration_for_player"
  /\ ~panicked
  /\ Listed = { <<1, 0>>, <<2, 0>> }
  /\ \A b \in Listed :
       /\ Body(prev, b).acceleration # Written
       /\ Body(state, b) = [Body(prev, b) EXCEPT !.acceleration = Written]
  /\ \E b \in Missiles(prev) : Body(state, b) = Body(prev, b)

\* ------------------------------------------- create_missile_for_player

\* The last call is create_missile_for_player.
MissileCreated == last.op = "create_missile_for_player"

\* C27: create_missile_for_player appends one missile: the player's count,
\* as get_player_missile_count reports it, grows by exactly 1; the new
\* missile has the index the count was before; its position, orientation
\* and velocity are those of the launch data and its acceleration is zero;
\* the missiles the player had keep their index.
C27_CreateAppendsOneMissile ==
  (MissileCreated /\ ~panicked) =>
    LET id == last.data[1][1]
        count == get_player_missile_count(Repo(prev), id)
        missiles == state.player[id].missiles
    IN  /\ get_player_missile_count(Repo(state), id) = count + 1
        /\ missiles[count + 1] =
             [position |-> LaunchOf(Written).pos,
              angle |-> LaunchOf(Written).angle,
              velocity |-> LaunchOf(Written).velocity,
              acceleration |-> <<0, 0>>]
        /\ \A m \in 1..count : missiles[m] = prev.player[id].missiles[m]

\* A missile was created through the gateway for a player that had one from
\* a Shoot command: it is the player's second, with the launch data.
C27_Witness ==
  /\ MissileCreated /\ ~panicked
  /\ LET id == last.data[1][1]
     IN  /\ MissileCount(prev, id) = 1
         /\ MissileCount(state, id) = 2
         /\ state.player[id].missiles[1] = prev.player[id].missiles[1]
         /\ state.player[id].missiles[1].position # Written
         /\ state.player[id].missiles[2].position = Written
         /\ state.player[id].missiles[2].velocity = <<Written[2], Written[1]>>
         /\ state.player[id].missiles[2].angle = Written[1]
         /\ state.player[id].missiles[2].acceleration = <<0, 0>>

====
